---- MODULE Spec2Model ----
(***************************************************************************)
(* Service-request lifecycle of elcorp-namibia: the REST handlers of       *)
(* app/api/routes.py and app/api_v1/service_requests_routes.py acting on   *)
(* the ServiceRequest / ServiceRequestHistory / SLAMetric / User tables.   *)
(***************************************************************************)
EXTENDS Integers, Sequences, FiniteSets, TLC

(* ------------------------------------------------------------------ *)
(* Bounds                                                               *)
(* ------------------------------------------------------------------ *)
MaxHistory == 2
MaxTransitions == 4
MaxClock == 1

(* ------------------------------------------------------------------ *)
(* Domains                                                              *)
(* ------------------------------------------------------------------ *)
Users == {1, 2, 3}
NoUser == 0
UnknownUser == 4
Roles == {"user", "staff", "admin"}
ReqIds == {1}
NoRequest == [status |-> "none"]
Absent == "absent"
Procs == {1, 2}
Idle == [op |-> "idle"]
NoResult == [op |-> "none"]

STATUS_DRAFT == "draft"
STATUS_SUBMITTED == "submitted"
STATUS_IN_REVIEW == "in_review"
STATUS_APPROVED == "approved"
STATUS_REJECTED == "rejected"
STATUS_COMPLETED == "completed"
PRIORITY_NORMAL == "normal"
VALID_STATUSES ==
    {STATUS_DRAFT, STATUS_SUBMITTED, STATUS_IN_REVIEW, STATUS_APPROVED,
     STATUS_REJECTED, STATUS_COMPLETED}
VALID_CATEGORIES == {"compliance", "support", "inquiry", "complaint", "other"}
VALID_PRIORITIES == {"low", "normal", "high", "urgent"}

(* request bodies the clients send; Absent marks a key that is not sent *)
Body(t, d, c, p) == [title |-> t, description |-> d, category |-> c, priority |-> p]

CreateBodies ==
    {Body("t1", "d1", "support", Absent), Body("t1", "d1", "support", "high"),
     Body("t1", "d1", Absent, Absent), Body(Absent, "d1", "support", Absent),
     Body("t1", "d1", "bogus", Absent), Body("t1", "d1", "support", "bogus")}
EditBodies ==
    {Body("t2", Absent, Absent, Absent), Body("t2", "d2", "inquiry", "urgent"),
     Body("t2", Absent, "bogus", Absent), Body(Absent, "d2", Absent, "bogus")}
StatusInputs == VALID_STATUSES \cup {"", "bogus"}
AssigneeInputs == Users \cup {NoUser, UnknownUser}

VARIABLES role, is_active, requests, history, metrics, audit, used, now, last,
          definitions, exemptions, result, txn, raised,
          scan, task, limiter, account, jwt, reset, passwords

vars == <<role, is_active, requests, history, metrics, audit, used, now, last,
          definitions, exemptions, result, txn, raised,
          scan, task, limiter, account, jwt, reset, passwords>>

(* the state of the services and libraries beside the request lifecycle *)
libvars == <<scan, task, limiter, account, jwt, reset, passwords>>

NoScan == [op |-> "none"]
TaskIds == {1, 2, 3}
Unsent == [state |-> "NONE", retries |-> 0, countdowns |-> <<>>]
NoTask == [queue |-> [t \in TaskIds |-> Unsent], dlq |-> {}]
Never == -1
NoEntry == [attempts |-> 0, last_attempt |-> Never, blocked_until |-> Never]
NoLimiter == [entry |-> NoEntry, clock |-> 0, calls |-> <<>>]
(* a new User: status ACTIVE, no failed logins, no events *)
NoAccount ==
    [op |-> "none", status |-> "active", failed_login_attempts |-> 0,
     last_login |-> FALSE, deleted |-> FALSE, events |-> <<>>]
(* a new JWTHandler: nothing issued, nothing revoked *)
NoJwt ==
    [op |-> "none", clock |-> 0, advances |-> 0, issued |-> {}, revoked_tokens |-> {},
     token |-> 0, token_type |-> "none", returned |-> "none"]
NoExp == -1
NoToken == [user_id |-> 0, iat |-> 0, exp |-> NoExp, signed |-> FALSE]
NoReset == [op |-> "none", clock |-> 0, advances |-> 0, issued |-> {},
            token |-> NoToken, returned |-> 0, audits |-> 0,
            reason |-> "none", accepted |-> {}, again |-> {}]
NoPasswords == [op |-> "none",
                password_hash |-> [scheme |-> "bcrypt", password |-> 1],
                history |-> <<>>, previous |-> <<>>, sets |-> 0,
                current_password |-> 0, new_password |-> 0, returned |-> "none"]

InitLib ==
    /\ scan = NoScan
    /\ task = NoTask
    /\ limiter = NoLimiter
    /\ account = NoAccount
    /\ jwt = NoJwt
    /\ reset = NoReset
    /\ passwords = NoPasswords

appvars == <<role, is_active, requests, history, metrics, audit, used, now, last>>

(* what an operation of one of these services leaves alone *)
Frame_scan ==
    UNCHANGED <<appvars, definitions, exemptions, result, txn, raised, task, limiter, account, jwt, reset, passwords>>

Frame_task ==
    UNCHANGED <<appvars, definitions, exemptions, result, txn, raised, scan, limiter, account, jwt, reset, passwords>>

Frame_limiter ==
    UNCHANGED <<appvars, definitions, exemptions, result, txn, raised, scan, task, account, jwt, reset, passwords>>

Frame_account ==
    UNCHANGED <<appvars, definitions, exemptions, result, txn, raised, scan, task, limiter, jwt, reset, passwords>>

Frame_jwt ==
    UNCHANGED <<appvars, definitions, exemptions, result, txn, raised, scan, task, limiter, account, reset, passwords>>

Frame_reset ==
    UNCHANGED <<appvars, definitions, exemptions, result, txn, raised, scan, task, limiter, account, jwt, passwords>>

Frame_passwords ==
    UNCHANGED <<appvars, definitions, exemptions, result, txn, raised, scan, task, limiter, account, jwt, reset>>

(* the SLA tables, the value the last SLAService call returned, the requests
   being served concurrently and the step of the last handler that raised:
   the handlers above the fault section leave them and the services alone *)
slavars == <<definitions, exemptions, result, txn, raised, libvars>>

(* ------------------------------------------------------------------ *)
(* Helpers                                                              *)
(* ------------------------------------------------------------------ *)
Exists(r) == requests[r] /= NoRequest

(* app/api/utils.py validate_request_json, as the handlers test it *)
validate_request_json(json_ok) == json_ok

(* app/security.py require_role: 403 unless active and role listed *)
require_role(a, roles) == is_active[a] /\ role[a] \in roles

require_admin(a) == require_role(a, {"admin"})

(* ServiceRequest.can_edit / can_submit *)
can_edit(req, a) == req.status = STATUS_DRAFT /\ req.created_by = a

can_submit(req, a) == req.status = STATUS_DRAFT /\ req.created_by = a

(* the ServiceRequest constructor: status defaults to draft, created_at to
   datetime.utcnow() *)
NewRequest(t, d, c, p, a) ==
    [status |-> STATUS_DRAFT, title |-> t, description |-> d, category |-> c,
     priority |-> p, created_by |-> a, assigned_to |-> NoUser, created_at |-> now]

(* a ServiceRequestHistory row; its details carry datetime.utcnow() *)
HistoryRow(act, old, new, a, to, from) ==
    [action |-> act, old_status |-> old, new_status |-> new, changed_by |-> a,
     assigned_to |-> to, assigned_from |-> from, timestamp |-> now]

(* what the caller of the last command saw *)
Reply(op, code) == [op |-> op, code |-> code]

Init ==
    /\ role = [u \in Users |-> IF u = 1 THEN "user" ELSE IF u = 2 THEN "staff" ELSE "admin"]
    /\ is_active = [u \in Users |-> TRUE]
    /\ requests = [r \in ReqIds |-> NoRequest]
    /\ history = [r \in ReqIds |-> <<>>]
    /\ metrics = [r \in ReqIds |-> <<>>]
    /\ audit = {}
    /\ used = {}
    /\ now = 0
    /\ last = Reply("none", 0)
    /\ definitions = {}
    /\ exemptions = [r \in ReqIds |-> {}]
    /\ result = NoResult
    /\ txn = [p \in Procs |-> Idle]
    /\ raised = "none"
    /\ InitLib

(* ------------------------------------------------------------------ *)
(* app/audit.py log_action: one AuditLog row, committed at once         *)
(* ------------------------------------------------------------------ *)
log_action(action, r) == audit \cup {<<action, r>>}

(* ------------------------------------------------------------------ *)
(* POST /api/service-requests                                           *)
(* ------------------------------------------------------------------ *)
CreateCode(json_ok, b) ==
    IF ~validate_request_json(json_ok) THEN 400
    ELSE IF b.title = Absent \/ b.description = Absent \/ b.category = Absent THEN 400
    ELSE IF b.category \notin VALID_CATEGORIES THEN 400
    ELSE IF (IF b.priority = Absent THEN PRIORITY_NORMAL ELSE b.priority)
                \notin VALID_PRIORITIES THEN 400
    ELSE 201

create_service_request(a, r, json_ok, b) ==
    LET code == CreateCode(json_ok, b)
        priority == IF b.priority = Absent THEN PRIORITY_NORMAL ELSE b.priority
    IN  /\ r \notin used
        /\ IF code = 201
           THEN /\ requests' = [requests EXCEPT ![r] =
                       NewRequest(b.title, b.description, b.category, priority, a)]
                /\ used' = used \cup {r}
           ELSE UNCHANGED <<requests, used>>
        /\ last' = Reply("create", code)
        /\ UNCHANGED <<role, is_active, history, metrics, audit, now>>
        /\ UNCHANGED slavars

(* ------------------------------------------------------------------ *)
(* POST /api/v1/service-requests                                        *)
(* ------------------------------------------------------------------ *)
CreateV1Code(has_body, b) ==
    IF ~has_body THEN 400
    ELSE IF b.title = Absent \/ b.description = Absent THEN 400
    ELSE 200

create_service_request_v1(a, r, has_body, b) ==
    LET code == CreateV1Code(has_body, b)
        category == IF b.category = Absent THEN "other" ELSE b.category
        priority == IF b.priority = Absent THEN "normal" ELSE b.priority
    IN  /\ r \notin used
        /\ IF code = 200
           THEN /\ requests' = [requests EXCEPT ![r] =
                       NewRequest(b.title, b.description, category, priority, a)]
                /\ used' = used \cup {r}
           ELSE UNCHANGED <<requests, used>>
        /\ last' = Reply("create_v1", code)
        /\ UNCHANGED <<role, is_active, history, metrics, audit, now>>
        /\ UNCHANGED slavars

(* ------------------------------------------------------------------ *)
(* PUT /api/service-requests/<id>                                       *)
(* ------------------------------------------------------------------ *)
(* edit without the can_edit check *)
UpdateCodeNoDraftCheck(a, r, json_ok, b) ==
    IF ~Exists(r) THEN 404
    ELSE IF requests[r].created_by /= a THEN 403
    ELSE IF ~validate_request_json(json_ok) THEN 400
    ELSE IF b.category /= Absent /\ b.category \notin VALID_CATEGORIES THEN 400
    ELSE IF b.priority /= Absent /\ b.priority \notin VALID_PRIORITIES THEN 400
    ELSE 200

UpdateCode(a, r, json_ok, b) ==
    IF ~Exists(r) THEN 404
    ELSE IF requests[r].created_by /= a THEN 403
    ELSE IF ~can_edit(requests[r], a) THEN 400
    ELSE IF ~validate_request_json(json_ok) THEN 400
    ELSE IF b.category /= Absent /\ b.category \notin VALID_CATEGORIES THEN 400
    ELSE IF b.priority /= Absent /\ b.priority \notin VALID_PRIORITIES THEN 400
    ELSE 200

update_service_request(a, r, json_ok, b) ==
    LET code == UpdateCode(a, r, json_ok, b)
        old == requests[r]
    IN  /\ IF code = 200
           THEN requests' = [requests EXCEPT ![r] =
                    [old EXCEPT
                       !.title = IF b.title = Absent THEN @ ELSE b.title,
                       !.description = IF b.description = Absent THEN @ ELSE b.description,
                       !.category = IF b.category = Absent THEN @ ELSE b.category,
                       !.priority = IF b.priority = Absent THEN @ ELSE b.priority]]
           ELSE UNCHANGED requests
        /\ last' = Reply("edit", code)
        /\ UNCHANGED <<role, is_active, history, metrics, audit, used, now>>
        /\ UNCHANGED slavars

(* ------------------------------------------------------------------ *)
(* POST /api/service-requests/<id>/submit                               *)
(* ------------------------------------------------------------------ *)
(* submit without the ownership check *)
SubmitCodeNoOwner(a, r) ==
    IF ~Exists(r) THEN 404
    ELSE IF requests[r].status /= STATUS_DRAFT THEN 400
    ELSE 200

SubmitCode(a, r) ==
    IF ~Exists(r) THEN 404
    ELSE IF requests[r].created_by /= a THEN 403
    ELSE IF ~can_submit(requests[r], a) THEN 400
    ELSE 200

submit_service_request(a, r) ==
    LET code == SubmitCode(a, r)
        old_status == requests[r].status
    IN  /\ IF code = 200
           THEN /\ requests' = [requests EXCEPT ![r].status = STATUS_SUBMITTED]
                /\ history' = [history EXCEPT ![r] = Append(@,
                       HistoryRow("submitted", old_status, STATUS_SUBMITTED, a, NoUser, NoUser))]
                /\ audit' = log_action("service_request_submitted", r)
           ELSE UNCHANGED <<requests, history, audit>>
        /\ last' = Reply("submit", code)
        /\ UNCHANGED <<role, is_active, metrics, used, now>>
        /\ UNCHANGED slavars

(* ------------------------------------------------------------------ *)
(* PATCH /api/service-requests/<id>/status                              *)
(* ------------------------------------------------------------------ *)
(* change_status whose approve/reject branch forgets the admin check *)
StatusCodeNoAdmin(a, r, json_ok, new_status) ==
    LET is_admin == role[a] = "admin"
        is_staff == role[a] = "staff"
        cur == requests[r].status
    IN  IF ~require_role(a, {"staff", "admin"}) THEN 403
        ELSE IF ~Exists(r) THEN 404
        ELSE IF ~validate_request_json(json_ok) THEN 400
        ELSE IF new_status = "" \/ new_status \notin VALID_STATUSES THEN 400
        ELSE IF new_status = STATUS_IN_REVIEW
             THEN IF ~is_staff THEN 403
                  ELSE IF cur /= STATUS_SUBMITTED THEN 400 ELSE 200
        ELSE IF new_status \in {STATUS_APPROVED, STATUS_REJECTED}
             THEN IF cur /= STATUS_IN_REVIEW THEN 400 ELSE 200
        ELSE IF new_status = STATUS_COMPLETED
             THEN IF ~is_admin THEN 403
                  ELSE IF cur \notin {STATUS_APPROVED, STATUS_COMPLETED} THEN 400 ELSE 200
        ELSE 200

StatusCode(a, r, json_ok, new_status) ==
    LET is_admin == role[a] = "admin"
        is_staff == role[a] = "staff"
        cur == requests[r].status
    IN  IF ~require_role(a, {"staff", "admin"}) THEN 403
        ELSE IF ~Exists(r) THEN 404
        ELSE IF ~validate_request_json(json_ok) THEN 400
        ELSE IF new_status = "" \/ new_status \notin VALID_STATUSES THEN 400
        ELSE IF new_status = STATUS_IN_REVIEW
             THEN IF ~is_staff THEN 403
                  ELSE IF cur /= STATUS_SUBMITTED THEN 400 ELSE 200
        ELSE IF new_status \in {STATUS_APPROVED, STATUS_REJECTED}
             THEN IF ~is_admin THEN 403
                  ELSE IF cur /= STATUS_IN_REVIEW THEN 400 ELSE 200
        ELSE IF new_status = STATUS_COMPLETED
             THEN IF ~is_admin THEN 403
                  ELSE IF cur \notin {STATUS_APPROVED, STATUS_COMPLETED} THEN 400 ELSE 200
        ELSE 200

(* change_status that keeps only the newest history row *)
update_status_overwriting_history(a, r, json_ok, new_status) ==
    LET code == StatusCode(a, r, json_ok, new_status)
        old_status == requests[r].status
    IN  /\ IF code = 200
           THEN /\ requests' = [requests EXCEPT ![r].status = new_status]
                /\ history' = [history EXCEPT ![r] =
                       <<HistoryRow("status_changed", old_status, new_status, a, NoUser, NoUser)>>]
                /\ audit' = log_action("service_request_status_changed", r)
           ELSE UNCHANGED <<requests, history, audit>>
        /\ last' = Reply("change_status", code)
        /\ UNCHANGED <<role, is_active, metrics, used, now>>
        /\ UNCHANGED slavars

update_service_request_status(a, r, json_ok, new_status) ==
    LET code == StatusCode(a, r, json_ok, new_status)
        old_status == requests[r].status
    IN  /\ IF code = 200
           THEN /\ requests' = [requests EXCEPT ![r].status = new_status]
                /\ history' = [history EXCEPT ![r] = Append(@,
                       HistoryRow("status_changed", old_status, new_status, a, NoUser, NoUser))]
                /\ audit' = log_action("service_request_status_changed", r)
           ELSE UNCHANGED <<requests, history, audit>>
        /\ last' = Reply("change_status", code)
        /\ UNCHANGED <<role, is_active, metrics, used, now>>
        /\ UNCHANGED slavars

(* ------------------------------------------------------------------ *)
(* POST /api/service-requests/<id>/assign                               *)
(* ------------------------------------------------------------------ *)
(* assign without the check of the assignee's role *)
AssignCodeNoStaffCheck(a, r, json_ok, assigned_to_id) ==
    IF ~require_admin(a) THEN 403
    ELSE IF ~Exists(r) THEN 404
    ELSE IF ~validate_request_json(json_ok) THEN 400
    ELSE IF assigned_to_id = NoUser THEN 400
    ELSE IF assigned_to_id \notin Users THEN 404
    ELSE 200

AssignCode(a, r, json_ok, assigned_to_id) ==
    IF ~require_admin(a) THEN 403
    ELSE IF ~Exists(r) THEN 404
    ELSE IF ~validate_request_json(json_ok) THEN 400
    ELSE IF assigned_to_id = NoUser THEN 400
    ELSE IF assigned_to_id \notin Users THEN 404
    ELSE IF role[assigned_to_id] /= "staff" THEN 400
    ELSE 200

assign_service_request(a, r, json_ok, assigned_to_id) ==
    LET code == AssignCode(a, r, json_ok, assigned_to_id)
        old == requests[r]
    IN  /\ IF code = 200
           THEN /\ requests' = [requests EXCEPT ![r].assigned_to = assigned_to_id]
                /\ history' = [history EXCEPT ![r] = Append(@,
                       HistoryRow("assigned", old.status, old.status, a,
                                  assigned_to_id, old.assigned_to))]
                /\ audit' = log_action("service_request_assigned", r)
           ELSE UNCHANGED <<requests, history, audit>>
        /\ last' = Reply("assign", code)
        /\ UNCHANGED <<role, is_active, metrics, used, now>>
        /\ UNCHANGED slavars

(* ------------------------------------------------------------------ *)
(* DELETE /api/service-requests/<id>                                    *)
(* ------------------------------------------------------------------ *)
DeleteCode(a, r) ==
    IF ~require_admin(a) THEN 403
    ELSE IF ~Exists(r) THEN 404
    ELSE 200

delete_service_request(a, r) ==
    LET code == DeleteCode(a, r)
    IN  /\ IF code = 200
           THEN /\ audit' = log_action("service_request_deleted", r)
                /\ history' = [history EXCEPT ![r] = <<>>]
                /\ requests' = [requests EXCEPT ![r] = NoRequest]
           ELSE UNCHANGED <<requests, history, audit>>
        /\ last' = Reply("delete", code)
        /\ UNCHANGED <<role, is_active, metrics, used, now>>
        /\ UNCHANGED slavars

(* ------------------------------------------------------------------ *)
(* PUT /api/users/<id>/role                                             *)
(* ------------------------------------------------------------------ *)
UpdateRoleCode(a, user_id, has_role, role_name) ==
    IF ~require_admin(a) THEN 403
    ELSE IF user_id \notin Users THEN 404
    ELSE IF ~has_role THEN 400
    ELSE IF role_name \notin Roles THEN 400
    ELSE 200

update_user_role(a, user_id, has_role, role_name) ==
    LET code == UpdateRoleCode(a, user_id, has_role, role_name)
    IN  /\ IF code = 200
           THEN role' = [role EXCEPT ![user_id] = role_name]
           ELSE UNCHANGED role
        /\ last' = Reply("update_user_role", code)
        /\ UNCHANGED <<is_active, requests, history, metrics, audit, used, now>>
        /\ UNCHANGED slavars

(* ------------------------------------------------------------------ *)
(* DELETE /api/users/<id>: deactivates the user                         *)
(* ------------------------------------------------------------------ *)
DeleteUserCode(a, user_id) ==
    IF ~require_admin(a) THEN 403
    ELSE IF user_id = a THEN 400
    ELSE IF user_id \notin Users THEN 404
    ELSE 200

delete_user(a, user_id) ==
    LET code == DeleteUserCode(a, user_id)
    IN  /\ IF code = 200
           THEN is_active' = [is_active EXCEPT ![user_id] = FALSE]
           ELSE UNCHANGED is_active
        /\ last' = Reply("delete_user", code)
        /\ UNCHANGED <<role, requests, history, metrics, audit, used, now>>
        /\ UNCHANGED slavars

(* time passes *)
Tick ==
    /\ now < MaxClock
    /\ now' = now + 1
    /\ UNCHANGED <<role, is_active, requests, history, metrics, audit, used, last>>
    /\ UNCHANGED slavars

(* ------------------------------------------------------------------ *)
(* The commands clients can issue                                       *)
(* ------------------------------------------------------------------ *)
Bodies(json_ok, bodies) == IF json_ok THEN bodies ELSE {Body(Absent, Absent, Absent, Absent)}

(* a command that would append a history row runs only while rows are left *)
Room(r, code, cap) == code = 200 => Len(history[r]) < cap

Create ==
    \E a \in Users, r \in ReqIds, j \in BOOLEAN :
       \E b \in Bodies(j, CreateBodies) : create_service_request(a, r, j, b)

CreateV1 ==
    \E a \in Users, r \in ReqIds, j \in BOOLEAN :
       \E b \in Bodies(j, CreateBodies) : create_service_request_v1(a, r, j, b)

Edit ==
    \E a \in Users, r \in ReqIds, j \in BOOLEAN :
       \E b \in Bodies(j, EditBodies) : update_service_request(a, r, j, b)

Submit(cap) ==
    \E a \in Users, r \in ReqIds :
       Room(r, SubmitCode(a, r), cap) /\ submit_service_request(a, r)

ChangeStatus(cap) ==
    \E a \in Users, r \in ReqIds, j \in BOOLEAN :
       \E s \in (IF j THEN StatusInputs ELSE {STATUS_IN_REVIEW}) :
          Room(r, StatusCode(a, r, j, s), cap) /\ update_service_request_status(a, r, j, s)

Assign(cap) ==
    \E a \in Users, r \in ReqIds, j \in BOOLEAN :
       \E u \in (IF j THEN AssigneeInputs ELSE {2}) :
          Room(r, AssignCode(a, r, j, u), cap) /\ assign_service_request(a, r, j, u)

Delete == \E a \in Users, r \in ReqIds : delete_service_request(a, r)

Next ==
    \/ Create
    \/ CreateV1
    \/ Edit
    \/ Submit(MaxHistory)
    \/ ChangeStatus(MaxHistory)
    \/ Assign(MaxHistory)
    \/ Delete

Spec == Init /\ [][Next]_vars

(* the lifecycle of one well-formed request *)
CreateOne ==
    \E a \in Users, r \in ReqIds :
       create_service_request(a, r, TRUE, Body("t1", "d1", "support", Absent))

NextStatus ==
    \/ CreateOne
    \/ Submit(MaxTransitions)
    \/ ChangeStatus(MaxTransitions)

SpecStatus == Init /\ [][NextStatus]_vars

NextAssign ==
    \/ CreateOne
    \/ Submit(MaxTransitions)
    \/ ChangeStatus(MaxTransitions)
    \/ Assign(MaxTransitions)

SpecAssign == Init /\ [][NextAssign]_vars

(* assignment interleaved with the administration of users *)
UpdateUserRole ==
    \E a \in Users, u \in Users \cup {UnknownUser}, h \in BOOLEAN :
       \E n \in (IF h THEN Roles \cup {"bogus"} ELSE {"staff"}) : update_user_role(a, u, h, n)

DeleteUser == \E a \in Users, u \in Users \cup {UnknownUser} : delete_user(a, u)

NextRoles ==
    \/ CreateOne
    \/ Assign(MaxHistory)
    \/ UpdateUserRole
    \/ DeleteUser

SpecRoles == Init /\ [][NextRoles]_vars

EditOne ==
    \E a \in Users, r \in ReqIds :
       update_service_request(a, r, TRUE, Body("t2", "d2", "inquiry", "urgent"))

NextHistory ==
    \/ CreateOne
    \/ Submit(MaxHistory)
    \/ ChangeStatus(MaxHistory)
    \/ Assign(MaxHistory)
    \/ Delete
    \/ Tick

SpecHistory == Init /\ [][NextHistory]_vars

(* ================================================================== *)
(* Properties                                                           *)
(* ================================================================== *)

(* the transition table of the lifecycle *)
TransitionTable ==
    {<<STATUS_DRAFT, STATUS_SUBMITTED>>, <<STATUS_SUBMITTED, STATUS_IN_REVIEW>>,
     <<STATUS_IN_REVIEW, STATUS_APPROVED>>, <<STATUS_IN_REVIEW, STATUS_REJECTED>>,
     <<STATUS_APPROVED, STATUS_COMPLETED>>}

IsTransitionRow(row) == row.action \in {"submitted", "status_changed"}

TransitionRows(h) == SelectSeq(h, IsTransitionRow)

IsPrefix(h, g) == Len(h) <= Len(g) /\ SubSeq(g, 1, Len(h)) = h

Failed == last'.code /= 200

(* C1: a change_status by a staff or admin actor for a pair (from, to) that is
   not in the transition table fails and leaves the status as it was. *)
C1_TransitionCompleteness ==
    [][\A a \in Users, r \in ReqIds, s \in VALID_STATUSES :
         ( /\ Exists(r)
           /\ role[a] \in {"staff", "admin"}
           /\ <<requests[r].status, s>> \notin TransitionTable
           /\ update_service_request_status(a, r, TRUE, s) )
         => (Failed /\ requests'[r].status = requests[r].status)]_vars

(* C2: once a request is rejected or completed no command changes its status or
   adds a status-transition row, and from approved only completed is reached. *)
C2_TerminalStatuses ==
    [][\A r \in ReqIds :
         /\ requests[r].status \in {STATUS_REJECTED, STATUS_COMPLETED}
               => /\ requests'[r].status = requests[r].status
                  /\ TransitionRows(history'[r]) = TransitionRows(history[r])
         /\ requests[r].status = STATUS_APPROVED
               => requests'[r].status \in {STATUS_APPROVED, STATUS_COMPLETED}]_vars

(* C3: submit changes the request only for its creator on a draft, and then the
   status becomes submitted; any other actor gets 403 (Forbidden), the creator
   of a non-draft request gets 400 (InvalidTransition), and in both failures the
   request and its history are unchanged. *)
C3_SubmitGuard ==
    [][last'.op = "submit" =>
       \A a \in Users, r \in ReqIds :
         (Exists(r) /\ submit_service_request(a, r))
         => IF a = requests[r].created_by /\ requests[r].status = STATUS_DRAFT
            THEN /\ last'.code = 200
                 /\ requests'[r] = [requests[r] EXCEPT !.status = STATUS_SUBMITTED]
            ELSE /\ a /= requests[r].created_by => last'.code = 403
                 /\ a = requests[r].created_by => last'.code = 400
                 /\ requests' = requests
                 /\ history' = history]_vars

C3_Witness ==
    /\ last = Reply("submit", 403)
    /\ \E r \in ReqIds : Exists(r) /\ requests[r].status = STATUS_DRAFT

(* C4: change_status succeeds for submitted->in_review only for a staff actor and
   for in_review->approved, in_review->rejected and approved->completed only for
   an admin actor; an actor with role user never succeeds; a rejected attempt
   changes neither the request nor its history. *)
C4_RoleGuard ==
    [][last'.op = "change_status" =>
       IF Failed
       THEN requests' = requests /\ history' = history
       ELSE \A a \in Users, r \in ReqIds, s \in VALID_STATUSES :
              (Exists(r) /\ update_service_request_status(a, r, TRUE, s))
              => LET pair == <<requests[r].status, s>>
                 IN  /\ pair = <<STATUS_SUBMITTED, STATUS_IN_REVIEW>> => role[a] = "staff"
                     /\ pair \in {<<STATUS_IN_REVIEW, STATUS_APPROVED>>,
                                  <<STATUS_IN_REVIEW, STATUS_REJECTED>>,
                                  <<STATUS_APPROVED, STATUS_COMPLETED>>} => role[a] = "admin"
                     /\ role[a] /= "user"]_vars

C4_Witness ==
    /\ last = Reply("change_status", 403)
    /\ \E r \in ReqIds :
          /\ requests[r].status = STATUS_APPROVED
          /\ history[r][Len(history[r])].changed_by = 3

(* C5: an edit changes title, description, category or priority only when the
   actor is the creator and the status is draft; for any other actor or status
   the edit fails and the request is unchanged; an edit never touches status,
   creator, assignee or history. *)
C5_EditGuard ==
    [][last'.op = "edit" =>
       IF Failed
       THEN requests' = requests /\ history' = history
       ELSE \A a \in Users, r \in ReqIds, b \in EditBodies :
              (Exists(r) /\ update_service_request(a, r, TRUE, b))
              => /\ a = requests[r].created_by
                 /\ requests[r].status = STATUS_DRAFT
                 /\ requests'[r].status = requests[r].status
                 /\ requests'[r].created_by = requests[r].created_by
                 /\ requests'[r].assigned_to = requests[r].assigned_to
                 /\ history' = history]_vars

C5_Witness ==
    /\ last = Reply("edit", 400)
    /\ \E r \in ReqIds :
          /\ requests[r].status = STATUS_SUBMITTED
          /\ requests[r].title = "t2"

Transitioned(a, r) ==
    \/ submit_service_request(a, r)
    \/ \E s \in VALID_STATUSES : update_service_request_status(a, r, TRUE, s)

Sorted(h) == \A i, j \in 1..Len(h) : i < j => h[i].timestamp <= h[j].timestamp

(* C6: history is append-only and complete: every successful submit or
   change_status appends exactly one transition row carrying the old status,
   the new status and the actor, no other command adds a transition row, rows
   stay ordered by timestamp, and only the deletion of the request removes or
   changes an existing row.  (A step that leaves the clock alone is a command;
   the other steps are the passing of time.) *)
C6_HistoryAppendOnly ==
    [][IF last'.op \in {"submit", "change_status"} /\ ~Failed /\ now' = now
       THEN \E r \in ReqIds :
              LET row == history'[r][Len(history'[r])]
              IN  /\ history'[r] = Append(history[r], row)
                  /\ Sorted(history'[r])
                  /\ IsTransitionRow(row)
                  /\ row.old_status = requests[r].status
                  /\ row.new_status = requests'[r].status
                  /\ Transitioned(row.changed_by, r)
                  /\ \A q \in ReqIds \ {r} : history'[q] = history[q]
       ELSE \A r \in ReqIds :
              \/ history'[r] = history[r]
              \/ last'.op = "delete" /\ ~Exists(r)'
              \/ /\ IsPrefix(history[r], history'[r])
                 /\ Sorted(history'[r])
                 /\ TransitionRows(history'[r]) = TransitionRows(history[r])]_vars

C6_Witness ==
    \E r \in ReqIds :
       /\ Len(history[r]) = 2
       /\ history[r][1].action = "submitted"
       /\ history[r][2].action = "status_changed"
       /\ history[r][2].old_status = STATUS_SUBMITTED
       /\ history[r][1].timestamp < history[r][2].timestamp
       /\ last = Reply("change_status", 200)

(* C7: every successful submit or change_status adds exactly one SLAMetric row
   for the request, recording the new status, and leaves earlier SLAMetric rows
   as they were. *)
C7_SlaTracked ==
    [][(last'.op \in {"submit", "change_status"} /\ ~Failed) =>
       \A a \in Users, r \in ReqIds :
          Transitioned(a, r)
          => /\ Len(metrics'[r]) = Len(metrics[r]) + 1
             /\ IsPrefix(metrics[r], metrics'[r])
             /\ metrics'[r][Len(metrics'[r])].status = requests'[r].status]_vars

(* C8: in every reachable state a request with an assignee references a user
   who holds the staff role. *)
C8_AssigneeIsStaff ==
    \A r \in ReqIds :
       (Exists(r) /\ requests[r].assigned_to /= NoUser)
       => role[requests[r].assigned_to] = "staff"

(* C9: assign succeeds only for an admin actor and an existing assignee holding
   the staff role; on success it sets assigned_to, leaves every other field of
   the request as it was, and appends exactly one "assigned" row carrying the
   old and the new assignee; an absent assignee gives 404 (NotFound), one
   without the staff role gives 400 (ValidationError), and every failure leaves
   the request and its history unchanged. *)
C9_AssignEffect ==
    [][last'.op = "assign" =>
       IF Failed
       THEN /\ requests' = requests
            /\ history' = history
            /\ \A a \in Users, r \in ReqIds, u \in AssigneeInputs \ {NoUser} :
                 ( /\ role[a] = "admin" /\ is_active[a]
                   /\ Exists(r)
                   /\ u \notin Users \/ role[u] /= "staff"
                   /\ assign_service_request(a, r, TRUE, u) )
                 => last'.code = IF u \notin Users THEN 404 ELSE 400
       ELSE \E r \in ReqIds :
              LET row == history'[r][Len(history'[r])]
                  a == row.changed_by
                  u == requests'[r].assigned_to
              IN  /\ Exists(r)
                  /\ assign_service_request(a, r, TRUE, u)
                  /\ role[a] = "admin"
                  /\ u \in Users /\ role[u] = "staff"
                  /\ requests'[r] = [requests[r] EXCEPT !.assigned_to = u]
                  /\ history'[r] = Append(history[r], row)
                  /\ row.action = "assigned"
                  /\ row.assigned_from = requests[r].assigned_to
                  /\ row.assigned_to = u
                  /\ row.old_status = requests[r].status
                  /\ row.new_status = requests[r].status]_vars

C9_Witness ==
    /\ last = Reply("assign", 200)
    /\ \E r \in ReqIds :
          /\ requests[r].status = STATUS_IN_REVIEW
          /\ requests[r].assigned_to = 2
          /\ history[r][Len(history[r])].action = "assigned"
          /\ history[r][Len(history[r])].assigned_to = 2

(* C10: through either create entry point a persisted request starts as a draft
   with a category and a priority of the fixed sets, and a create that fails
   persists nothing. *)
C10_CreateValidated ==
    [][last'.op \in {"create", "create_v1"} =>
       \A r \in ReqIds :
          IF ~Exists(r) /\ Exists(r)'
          THEN /\ requests'[r].status = STATUS_DRAFT
               /\ requests'[r].category \in VALID_CATEGORIES
               /\ requests'[r].priority \in VALID_PRIORITIES
               /\ requests'[r].created_by \in Users
          ELSE requests'[r] = requests[r]]_vars

(* ================================================================== *)
(* SLA policy resolution: app/services/sla_service.py                   *)
(* ================================================================== *)
FALLBACK_RESPONSE_HOURS == 4
FALLBACK_RESOLUTION_HOURS == 24

(* an SLADefinition row *)
Definition(c, p, response, resolution, active) ==
    [category |-> c, priority |-> p, response_time_hours |-> response,
     resolution_time_hours |-> resolution, is_active |-> active]

(* the transient SLADefinition built when no row applies; it is never
   flushed, so the column default of is_active is not applied to it *)
FallbackDefinition ==
    [category |-> "default", priority |-> "medium",
     response_time_hours |-> FALLBACK_RESPONSE_HOURS,
     resolution_time_hours |-> FALLBACK_RESOLUTION_HOURS]

(* get_sla_definition that forgets the is_active filter *)
get_sla_definition_any_row(category, priority) ==
    LET exact == {d \in definitions : d.category = category /\ d.priority = priority}
        dflt == {d \in definitions : d.category = "default" /\ d.priority = priority}
    IN  IF exact /= {} THEN CHOOSE d \in exact : TRUE
        ELSE IF dflt /= {} THEN CHOOSE d \in dflt : TRUE
        ELSE FallbackDefinition

get_sla_definition(category, priority) ==
    LET exact == {d \in definitions :
                     d.category = category /\ d.priority = priority /\ d.is_active}
        dflt == {d \in definitions :
                     d.category = "default" /\ d.priority = priority /\ d.is_active}
    IN  IF exact /= {} THEN CHOOSE d \in exact : TRUE
        ELSE IF dflt /= {} THEN CHOOSE d \in dflt : TRUE
        ELSE FallbackDefinition

(* the rows an SLADefinition table may hold *)
DefinitionRows ==
    {Definition(c, "high", 1, 2, act) : c \in {"support", "default"}, act \in BOOLEAN}
    \cup {Definition("default", "high", 3, 6, TRUE)}
    \cup {Definition(c, "low", 2, 3, act) : c \in {"support", "default"}, act \in BOOLEAN}

(* unique_category_priority: one row per (category, priority) *)
UniqueCategoryPriority(table) ==
    \A d, e \in table : (d.category = e.category /\ d.priority = e.priority) => d = e

DefinitionTables == {t \in SUBSET DefinitionRows : UniqueCategoryPriority(t)}

QueryCategories == {"support", "default", "unknown_category"}
QueryPriorities == {"high", "low", "medium"}

InitPolicy ==
    /\ role = [u \in Users |-> IF u = 1 THEN "user" ELSE IF u = 2 THEN "staff" ELSE "admin"]
    /\ is_active = [u \in Users |-> TRUE]
    /\ requests = [r \in ReqIds |-> NoRequest]
    /\ history = [r \in ReqIds |-> <<>>]
    /\ metrics = [r \in ReqIds |-> <<>>]
    /\ audit = {}
    /\ used = {}
    /\ now = 0
    /\ last = Reply("none", 0)
    /\ definitions \in DefinitionTables
    /\ exemptions = [r \in ReqIds |-> {}]
    /\ result = NoResult
    /\ txn = [p \in Procs |-> Idle]
    /\ raised = "none"
    /\ InitLib

(* a caller resolves the policy of (category, priority) *)
ResolvePolicy ==
    \E c \in QueryCategories, p \in QueryPriorities :
       /\ result' = [op |-> "get_sla_definition", category |-> c, priority |-> p,
                     policy |-> get_sla_definition(c, p)]
       /\ UNCHANGED <<role, is_active, requests, history, metrics, audit, used, now, last,
                      definitions, exemptions, txn, raised, libvars>>

NextPolicy == ResolvePolicy

SpecPolicy == InitPolicy /\ [][NextPolicy]_vars

ActiveRows(c, p) ==
    {d \in definitions : d.category = c /\ d.priority = p /\ d.is_active}

(* C11: policy resolution returns the active row matching (category, priority)
   when there is one, else the active ("default", priority) row when there is
   one, else the hard-coded 4h / 24h fallback; an inactive row is never
   returned. *)
C11_PolicyTiers ==
    result.op = "get_sla_definition" =>
       LET c == result.category
           p == result.priority
           policy == result.policy
       IN  /\ \A d \in ActiveRows(c, p) : policy = d
           /\ ActiveRows(c, p) = {} => \A d \in ActiveRows("default", p) : policy = d
           /\ (ActiveRows(c, p) = {} /\ ActiveRows("default", p) = {})
                 => /\ policy \notin definitions
                    /\ policy.response_time_hours = 4
                    /\ policy.resolution_time_hours = 24
           /\ policy \in definitions => policy.is_active

(* the default tier, chosen although an inactive exact row exists *)
C11_Witness ==
    /\ result.op = "get_sla_definition"
    /\ result.category = "support"
    /\ result.policy \in definitions
    /\ result.policy.category = "default"
    /\ \E d \in definitions :
          d.category = "support" /\ d.priority = result.priority /\ ~d.is_active

(* ================================================================== *)
(* SLA exemptions and breach checks: app/services/sla_service.py        *)
(* ================================================================== *)
MaxSlaClock == 3
MaxExemptions == 2

(* end_at of an exemption without an end (NULL) *)
NoEnd == -1

ExemptionTypes == {"response", "resolution", "both"}

(* duration_hours of grant_exemption; None or 0 gives no end *)
Durations == {0, 1}

(* an SLAExemption row *)
Exemption(type, start_at, end_at) ==
    [exemption_type |-> type, start_at |-> start_at, end_at |-> end_at]

(* SLAExemption.is_active *)
is_active_exemption(e) ==
    e.start_at <= now /\ (e.end_at = NoEnd \/ now < e.end_at)

(* has_active_exemption whose window is closed at end_at *)
has_active_exemption_closed(r, exemption_type) ==
    \E e \in exemptions[r] :
       /\ e.start_at <= now
       /\ e.end_at = NoEnd \/ e.end_at >= now
       /\ e.exemption_type = "both" \/ e.exemption_type = exemption_type

(* SLAService.has_active_exemption: the query's filter *)
has_active_exemption(r, exemption_type) ==
    \E e \in exemptions[r] :
       /\ e.start_at <= now
       /\ e.end_at = NoEnd \/ e.end_at > now
       /\ e.exemption_type = "both" \/ e.exemption_type = exemption_type

(* SLAService.check_response_sla_breach *)
check_response_sla_breach(r) ==
    IF ~Exists(r) \/ requests[r].status = "completed" THEN FALSE
    ELSE IF has_active_exemption(r, "response") THEN FALSE
    ELSE LET sla_def == get_sla_definition(requests[r].category, requests[r].priority)
             response_deadline == requests[r].created_at + sla_def.response_time_hours
         IN  requests[r].status = "open" /\ now > response_deadline

(* check_resolution_sla_breach that never looks at the exemptions *)
check_resolution_ignoring_exemptions(r) ==
    IF ~Exists(r) THEN FALSE
    ELSE IF requests[r].status = "completed" THEN FALSE
    ELSE LET sla_def == get_sla_definition(requests[r].category, requests[r].priority)
             resolution_deadline == requests[r].created_at + sla_def.resolution_time_hours
         IN  now > resolution_deadline

(* check_resolution_sla_breach that reports a breach only in its first hour *)
check_resolution_first_hour_only(r) ==
    IF ~Exists(r) THEN FALSE
    ELSE IF requests[r].status = "completed" THEN FALSE
    ELSE IF has_active_exemption(r, "resolution") THEN FALSE
    ELSE LET sla_def == get_sla_definition(requests[r].category, requests[r].priority)
             resolution_deadline == requests[r].created_at + sla_def.resolution_time_hours
         IN  now > resolution_deadline /\ now <= resolution_deadline + 1

(* SLAService.check_resolution_sla_breach *)
check_resolution_sla_breach(r) ==
    IF ~Exists(r) THEN FALSE
    ELSE IF requests[r].status = "completed" THEN FALSE
    ELSE IF has_active_exemption(r, "resolution") THEN FALSE
    ELSE LET sla_def == get_sla_definition(requests[r].category, requests[r].priority)
             resolution_deadline == requests[r].created_at + sla_def.resolution_time_hours
         IN  now > resolution_deadline

(* one entry of breach_info['breaches'] *)
Breach(type, deadline) ==
    [type |-> type, deadline |-> deadline, hours_overdue |-> now - deadline]

(* SLAService.check_all_breaches: the report *)
check_all_breaches ==
    LET selected == {r \in ReqIds : Exists(r) /\ requests[r].status \in {"open", "in_progress"}}
        sla_def(r) == get_sla_definition(requests[r].category, requests[r].priority)
        breaches(r) ==
            {Breach("response", requests[r].created_at + sla_def(r).response_time_hours) :
                 x \in {y \in {1} : check_response_sla_breach(r)}}
            \cup
            {Breach("resolution", requests[r].created_at + sla_def(r).resolution_time_hours) :
                 x \in {y \in {1} : check_resolution_sla_breach(r)}}
    IN  {[request_id |-> r, status |-> requests[r].status, breaches |-> breaches(r)] :
             r \in {q \in selected : breaches(q) /= {}}}

(* SLAService.grant_exemption *)
grant_exemption(r, exemption_type, duration_hours) ==
    LET end_at == IF duration_hours /= 0 THEN now + duration_hours ELSE NoEnd
    IN  /\ exemptions' = [exemptions EXCEPT ![r] =
                             @ \cup {Exemption(exemption_type, now, end_at)}]
        /\ UNCHANGED <<role, is_active, requests, history, metrics, audit, used, now, last,
                       definitions, result, txn, raised, libvars>>

(* the periodic scan, were it to write an SLAMetric row per scanned request *)
check_sla_breaches_updating_metrics ==
    /\ result' = [op |-> "check_all_breaches", report |-> check_all_breaches,
                  breaches_detected |-> Cardinality(check_all_breaches), timestamp |-> now]
    /\ metrics' = [r \in ReqIds |->
                     IF Exists(r) THEN Append(metrics[r], [status |-> requests[r].status])
                     ELSE metrics[r]]
    /\ UNCHANGED <<role, is_active, requests, history, audit, used, now, last,
                   definitions, exemptions, txn, raised, libvars>>

(* app/tasks.py check_sla_breaches: the periodic scan *)
check_sla_breaches ==
    /\ result' = [op |-> "check_all_breaches", report |-> check_all_breaches,
                  breaches_detected |-> Cardinality(check_all_breaches), timestamp |-> now]
    /\ UNCHANGED <<role, is_active, requests, history, metrics, audit, used, now, last,
                   definitions, exemptions, txn, raised, libvars>>

(* time passes *)
Pass ==
    /\ now < MaxSlaClock
    /\ now' = now + 1
    /\ UNCHANGED <<role, is_active, requests, history, metrics, audit, used, last, slavars>>

GrantExemption ==
    \E r \in ReqIds, t \in ExemptionTypes, d \in Durations :
       /\ Exists(r)
       /\ Cardinality(exemptions[r]) < MaxExemptions
       /\ grant_exemption(r, t, d)

(* staff and admin move the request along *)
Advance(cap) ==
    \E a \in {2, 3}, r \in ReqIds, s \in {STATUS_IN_REVIEW, STATUS_APPROVED, STATUS_COMPLETED} :
       Room(r, StatusCode(a, r, TRUE, s), cap) /\ update_service_request_status(a, r, TRUE, s)

SlaTables == {{}, {Definition("support", "normal", 1, 1, TRUE)}}

InitSla ==
    /\ role = [u \in Users |-> IF u = 1 THEN "user" ELSE IF u = 2 THEN "staff" ELSE "admin"]
    /\ is_active = [u \in Users |-> TRUE]
    /\ requests = [r \in ReqIds |-> NoRequest]
    /\ history = [r \in ReqIds |-> <<>>]
    /\ metrics = [r \in ReqIds |-> <<>>]
    /\ audit = {}
    /\ used = {}
    /\ now = 0
    /\ last = Reply("none", 0)
    /\ definitions \in SlaTables
    /\ exemptions = [r \in ReqIds |-> {}]
    /\ result = NoResult
    /\ txn = [p \in Procs |-> Idle]
    /\ raised = "none"
    /\ InitLib

NextSla ==
    \/ CreateOne
    \/ EditOne
    \/ GrantExemption
    \/ Pass

SpecSla == InitSla /\ [][NextSla]_vars

(* the scanner beside the lifecycle up to the first staff response *)
GrantOnce ==
    \E r \in ReqIds :
       Exists(r) /\ exemptions[r] = {} /\ grant_exemption(r, "resolution", 1)

NextScan ==
    \/ CreateOne
    \/ Submit(MaxHistory)
    \/ Advance(MaxHistory)
    \/ GrantOnce
    \/ check_sla_breaches
    \/ Pass

SpecScan == InitSla /\ [][NextScan]_vars

(* the resolution deadline of a request under the policy that applies now *)
ResolutionDeadline(r) ==
    requests[r].created_at
       + get_sla_definition(requests[r].category, requests[r].priority).resolution_time_hours

(* C12, as stated: a resolution breach persists over every step after which
   the request is not completed and during which no exemption is granted. *)
C12_BreachMonotone ==
    [][\A r \in ReqIds :
         ( /\ check_resolution_sla_breach(r)
           /\ Exists(r)' /\ requests'[r].status /= STATUS_COMPLETED
           /\ exemptions'[r] = exemptions[r] )
         => check_resolution_sla_breach(r)']_vars

(* C12, amended: a resolution breach persists over every step after which the
   request is not completed, during which no exemption is granted and which
   leaves the request's category and priority as they were. *)
C12_BreachMonotoneSamePolicy ==
    [][\A r \in ReqIds :
         ( /\ check_resolution_sla_breach(r)
           /\ Exists(r)' /\ requests'[r].status /= STATUS_COMPLETED
           /\ exemptions'[r] = exemptions[r]
           /\ requests'[r].category = requests[r].category
           /\ requests'[r].priority = requests[r].priority )
         => check_resolution_sla_breach(r)']_vars

(* a breach that is two hours old, on a request whose exemption has run out *)
C12_Witness ==
    \E r \in ReqIds :
       /\ check_resolution_sla_breach(r)
       /\ now >= ResolutionDeadline(r) + 2
       /\ \E e \in exemptions[r] :
             /\ e.exemption_type \in {"resolution", "both"}
             /\ e.end_at /= NoEnd /\ e.end_at <= now

(* C13: for a request that is not completed and past its resolution deadline,
   an exemption of type resolution makes check_resolution_sla_breach false at
   every time in [start_at, end_at), and the check is true again from end_at
   on when no other exemption is active. *)
C13_ExemptionSuppression ==
    \A r \in ReqIds :
       (Exists(r) /\ requests[r].status /= STATUS_COMPLETED /\ now > ResolutionDeadline(r))
       => \A e \in exemptions[r] :
             e.exemption_type = "resolution"
             => /\ (e.start_at <= now /\ (e.end_at = NoEnd \/ now < e.end_at))
                      => ~check_resolution_sla_breach(r)
                /\ ( /\ e.end_at /= NoEnd /\ now >= e.end_at
                     /\ \A f \in exemptions[r] \ {e} : ~is_active_exemption(f) )
                      => check_resolution_sla_breach(r)

(* the breach is back at the very hour the exemption ends *)
C13_Witness ==
    \E r \in ReqIds : \E e \in exemptions[r] :
       /\ e.exemption_type = "resolution"
       /\ e.start_at > ResolutionDeadline(r)
       /\ e.end_at = now
       /\ check_resolution_sla_breach(r)

(* C19: has_active_exemption(request, T) is true exactly when the request has
   an exemption of type T or "both" that SLAExemption.is_active() calls active:
   start_at <= now and (no end_at or now < end_at); a window is active at its
   start_at and inactive at its end_at. *)
C19_ActiveExemption ==
    \A r \in ReqIds :
       /\ \A T \in ExemptionTypes :
             has_active_exemption(r, T)
             <=> \E e \in exemptions[r] :
                    is_active_exemption(e) /\ e.exemption_type \in {T, "both"}
       /\ \A e \in exemptions[r] :
             /\ is_active_exemption(e)
                   <=> (e.start_at <= now /\ (e.end_at = NoEnd \/ now < e.end_at))
             /\ now = e.start_at => is_active_exemption(e)
             /\ now = e.end_at => ~is_active_exemption(e)

(* a response exemption is active, a resolution exemption ends this very hour,
   and only the response check is suppressed *)
C19_Witness ==
    \E r \in ReqIds :
       /\ \E e \in exemptions[r] : e.exemption_type = "response" /\ is_active_exemption(e)
       /\ \E e \in exemptions[r] : e.exemption_type = "resolution" /\ e.end_at = now
       /\ has_active_exemption(r, "response")
       /\ ~has_active_exemption(r, "resolution")

(* the response deadline of a request under the policy that applies now *)
ResponseDeadline(r) ==
    requests[r].created_at
       + get_sla_definition(requests[r].category, requests[r].priority).response_time_hours

(* C14: check_all_breaches reports every request in status submitted or
   in_review whose resolution deadline has passed and which has no active
   exemption of type resolution or both, with a breach entry of type
   "resolution" carrying the hours overdue. *)
C14_ScanReportsBreaches ==
    \A r \in ReqIds :
       ( /\ Exists(r)
         /\ requests[r].status \in {STATUS_SUBMITTED, STATUS_IN_REVIEW}
         /\ now > ResolutionDeadline(r)
         /\ ~has_active_exemption(r, "resolution") )
       => \E entry \in check_all_breaches :
             /\ entry.request_id = r
             /\ \E b \in entry.breaches :
                   /\ b.type = "resolution"
                   /\ b.hours_overdue = now - ResolutionDeadline(r)

(* C15: a scan changes no request, exemption, SLAMetric row or history row,
   and scanning the state it leaves behind gives the same report. *)
C15_ScanReadOnly ==
    [][result' /= result =>
       /\ UNCHANGED <<role, is_active, requests, history, metrics, audit, used, now,
                      definitions, exemptions, libvars>>
       /\ result'.op = "check_all_breaches"
       /\ result'.report = check_all_breaches
       /\ result'.report = check_all_breaches']_vars

(* a scan has just run over an overdue request in review that has history
   rows and an exemption *)
C15_Witness ==
    /\ result.op = "check_all_breaches"
    /\ result.timestamp = now
    /\ \E r \in ReqIds :
          /\ Exists(r)
          /\ requests[r].status = STATUS_IN_REVIEW
          /\ now > ResolutionDeadline(r)
          /\ Len(history[r]) = 2
          /\ history[r][2].timestamp < now
          /\ exemptions[r] /= {}

(* C20: a response breach is reported for a request exactly when it is in
   status submitted, its response deadline has passed and no exemption of type
   response or both is active. *)
C20_ResponseBreach ==
    \A r \in ReqIds :
       Exists(r)
       => ( check_response_sla_breach(r)
            <=> ( /\ requests[r].status = STATUS_SUBMITTED
                  /\ now > ResponseDeadline(r)
                  /\ ~has_active_exemption(r, "response") ) )

(* ================================================================== *)
(* A handler one of whose steps raises                                  *)
(* ================================================================== *)
(* what can raise once the checks of a handler have passed: the handler's
   db.session.commit(), the commit inside log_action, the send_*_email call *)
Raises == {"none", "commit", "log_action", "email"}

(* a handler whose e-mail call is not wrapped in its own try/except *)
ReplyEmailEscapes(code, raise) ==
    IF code /= 200 THEN code
    ELSE IF raise \in {"commit", "log_action", "email"} THEN 500
    ELSE 200

(* the try/except of the handlers: the e-mail call has its own except, which
   logs and goes on; any other exception reaches the outer except, which
   answers 500 *)
ReplyAfter(code, raise) ==
    IF code /= 200 THEN code
    ELSE IF raise \in {"commit", "log_action"} THEN 500
    ELSE 200

(* the request and its history row are committed by the handler's own
   db.session.commit(); the audit row by the commit inside log_action *)
Committed(code, raise) == code = 200 /\ raise /= "commit"

Logged(code, raise) == code = 200 /\ raise \notin {"commit", "log_action"}

(* PUT /api/service-requests/<id>: it commits, writes no audit row and sends
   no e-mail *)
update_service_request_raising(a, r, b, raise) ==
    LET code == UpdateCode(a, r, TRUE, b)
        old == requests[r]
    IN  /\ IF Committed(code, raise)
           THEN requests' = [requests EXCEPT ![r] =
                    [old EXCEPT
                       !.title = IF b.title = Absent THEN @ ELSE b.title,
                       !.description = IF b.description = Absent THEN @ ELSE b.description,
                       !.category = IF b.category = Absent THEN @ ELSE b.category,
                       !.priority = IF b.priority = Absent THEN @ ELSE b.priority]]
           ELSE UNCHANGED requests
        /\ last' = Reply("edit", ReplyAfter(code, raise))
        /\ raised' = raise
        /\ UNCHANGED <<role, is_active, history, metrics, audit, used, now>>
        /\ UNCHANGED <<definitions, exemptions, result, txn, libvars>>

(* POST /api/service-requests/<id>/submit *)
submit_service_request_raising(a, r, raise) ==
    LET code == SubmitCode(a, r)
        old_status == requests[r].status
    IN  /\ IF Committed(code, raise)
           THEN /\ requests' = [requests EXCEPT ![r].status = STATUS_SUBMITTED]
                /\ history' = [history EXCEPT ![r] = Append(@,
                       HistoryRow("submitted", old_status, STATUS_SUBMITTED, a, NoUser, NoUser))]
           ELSE UNCHANGED <<requests, history>>
        /\ audit' = IF Logged(code, raise)
                    THEN log_action("service_request_submitted", r) ELSE audit
        /\ last' = Reply("submit", ReplyAfter(code, raise))
        /\ raised' = raise
        /\ UNCHANGED <<role, is_active, metrics, used, now>>
        /\ UNCHANGED <<definitions, exemptions, result, txn, libvars>>

(* PATCH /api/service-requests/<id>/status *)
update_service_request_status_raising(a, r, new_status, raise) ==
    LET code == StatusCode(a, r, TRUE, new_status)
        old_status == requests[r].status
    IN  /\ IF Committed(code, raise)
           THEN /\ requests' = [requests EXCEPT ![r].status = new_status]
                /\ history' = [history EXCEPT ![r] = Append(@,
                       HistoryRow("status_changed", old_status, new_status, a, NoUser, NoUser))]
           ELSE UNCHANGED <<requests, history>>
        /\ audit' = IF Logged(code, raise)
                    THEN log_action("service_request_status_changed", r) ELSE audit
        /\ last' = Reply("change_status", ReplyAfter(code, raise))
        /\ raised' = raise
        /\ UNCHANGED <<role, is_active, metrics, used, now>>
        /\ UNCHANGED <<definitions, exemptions, result, txn, libvars>>

(* POST /api/service-requests/<id>/assign *)
assign_service_request_raising(a, r, assigned_to_id, raise) ==
    LET code == AssignCode(a, r, TRUE, assigned_to_id)
        old == requests[r]
    IN  /\ IF Committed(code, raise)
           THEN /\ requests' = [requests EXCEPT ![r].assigned_to = assigned_to_id]
                /\ history' = [history EXCEPT ![r] = Append(@,
                       HistoryRow("assigned", old.status, old.status, a,
                                  assigned_to_id, old.assigned_to))]
           ELSE UNCHANGED <<requests, history>>
        /\ audit' = IF Logged(code, raise)
                    THEN log_action("service_request_assigned", r) ELSE audit
        /\ last' = Reply("assign", ReplyAfter(code, raise))
        /\ raised' = raise
        /\ UNCHANGED <<role, is_active, metrics, used, now>>
        /\ UNCHANGED <<definitions, exemptions, result, txn, libvars>>

(* nothing raises in a handler that returns from one of its checks *)
RaisesAfter(code, steps) == IF code = 200 THEN steps ELSE {"none"}

EditRaising ==
    \E a \in Users, r \in ReqIds :
       \E b \in {Body("t2", "d2", "inquiry", "urgent"), Body("t2", Absent, "bogus", Absent)} :
          \E raise \in RaisesAfter(UpdateCode(a, r, TRUE, b), {"none", "commit"}) :
             update_service_request_raising(a, r, b, raise)

SubmitRaising(cap) ==
    \E a \in Users, r \in ReqIds :
       \E raise \in RaisesAfter(SubmitCode(a, r), Raises) :
          Room(r, SubmitCode(a, r), cap) /\ submit_service_request_raising(a, r, raise)

ChangeStatusRaising(cap) ==
    \E a \in Users, r \in ReqIds, s \in StatusInputs :
       \E raise \in RaisesAfter(StatusCode(a, r, TRUE, s), Raises) :
          /\ Room(r, StatusCode(a, r, TRUE, s), cap)
          /\ update_service_request_status_raising(a, r, s, raise)

AssignRaising(cap) ==
    \E a \in Users, r \in ReqIds, u \in AssigneeInputs :
       \E raise \in RaisesAfter(AssignCode(a, r, TRUE, u), Raises) :
          /\ Room(r, AssignCode(a, r, TRUE, u), cap)
          /\ assign_service_request_raising(a, r, u, raise)

NextFaults ==
    \/ CreateOne
    \/ EditRaising
    \/ SubmitRaising(MaxHistory)
    \/ ChangeStatusRaising(MaxHistory)
    \/ AssignRaising(MaxHistory)

SpecFaults == Init /\ [][NextFaults]_vars

(* C16: a submit, change_status, assign or edit that reports a failure leaves
   the request, its history and its SLA metrics exactly as they were, so no
   command reports a failure after its change has been committed. *)
C16_FailureLeavesStateUntouched ==
    [][last'.op \in {"submit", "change_status", "assign", "edit"} /\ Failed
       => requests' = requests /\ history' = history /\ metrics' = metrics]_vars

(* C18: when the e-mail step of a submit, change_status or assign raises, the
   command still answers 200, the new status or assignee is the one of the
   history row it appended, that row records the prior status, the history
   before it is intact, the audit row is written and nothing else of the
   request changes. *)
C18_EmailFailureKeepsTransition ==
    [][raised' = "email"
       => /\ last'.op \in {"submit", "change_status", "assign"}
          /\ last'.code = 200
          /\ \E r \in ReqIds :
                LET row == history'[r][Len(history'[r])]
                    old == requests[r]
                    new == requests'[r]
                IN  /\ Exists(r)
                    /\ history'[r] = Append(history[r], row)
                    /\ row.old_status = old.status
                    /\ new.status = row.new_status
                    /\ audit' /= {}
                    /\ CASE last'.op = "submit" ->
                              /\ row.action = "submitted"
                              /\ new = [old EXCEPT !.status = STATUS_SUBMITTED]
                         [] last'.op = "change_status" ->
                              /\ row.action = "status_changed"
                              /\ new = [old EXCEPT !.status = row.new_status]
                         [] last'.op = "assign" ->
                              /\ row.action = "assigned"
                              /\ row.assigned_from = old.assigned_to
                              /\ new = [old EXCEPT !.assigned_to = row.assigned_to]]_vars

(* a move to in_review was committed and answered 200 although its e-mail
   raised *)
C18_Witness ==
    /\ raised = "email"
    /\ last = Reply("change_status", 200)
    /\ \E r \in ReqIds :
          /\ Exists(r)
          /\ requests[r].status = STATUS_IN_REVIEW
          /\ Len(history[r]) = 2
          /\ history[r][2].new_status = STATUS_IN_REVIEW
          /\ <<"service_request_status_changed", r>> \in audit

(* ================================================================== *)
(* Two workers serving requests at the same time                        *)
(* ================================================================== *)
(* what a worker holds between its read of the request and its commit *)
Pending(op, a, r, old_status, new_status) ==
    [op |-> op, actor |-> a, request |-> r, old_status |-> old_status,
     new_status |-> new_status]

PendingOn(r) == {p \in Procs : txn[p] /= Idle /\ txn[p].request = r}

(* the first half of a handler in worker p: ServiceRequest.query.get, the
   checks, old_status = service_request.status. A failed check answers at
   once. *)
Load(p, op, r, code, a, new_status) ==
    /\ txn[p] = Idle
    /\ IF code = 200
       THEN /\ txn' = [txn EXCEPT ![p] =
                          Pending(op, a, r, requests[r].status, new_status)]
            /\ UNCHANGED last
       ELSE /\ last' = Reply(op, code)
            /\ UNCHANGED txn
    /\ UNCHANGED <<role, is_active, requests, history, metrics, audit, used, now>>
    /\ UNCHANGED <<definitions, exemptions, result, raised, libvars>>

load_submit(p, a, r) ==
    Load(p, "submit", r, SubmitCode(a, r), a, STATUS_SUBMITTED)

load_status_change(p, a, r, new_status) ==
    Load(p, "change_status", r, StatusCode(a, r, TRUE, new_status), a, new_status)

(* the second half: the UPDATE of the status column, the INSERT of the history
   row built from the status that was read, the commit, log_action and the
   reply. Nothing compares the stored status with the one that was read. *)
commit_transition(p) ==
    /\ txn[p] /= Idle
    /\ LET t == txn[p]
           submitting == t.op = "submit"
       IN  /\ requests' = [requests EXCEPT ![t.request].status = t.new_status]
           /\ history' = [history EXCEPT ![t.request] = Append(@,
                  HistoryRow(IF submitting THEN "submitted" ELSE "status_changed",
                             t.old_status, t.new_status, t.actor, NoUser, NoUser))]
           /\ audit' = log_action(IF submitting THEN "service_request_submitted"
                                  ELSE "service_request_status_changed", t.request)
           /\ last' = Reply(t.op, 200)
    /\ txn' = [txn EXCEPT ![p] = Idle]
    /\ UNCHANGED <<role, is_active, metrics, used, now>>
    /\ UNCHANGED <<definitions, exemptions, result, raised, libvars>>

(* a worker starts a transition only while history rows are left for it *)
RoomFor(r, code, cap) ==
    code = 200 => Len(history[r]) + Cardinality(PendingOn(r)) < cap

LoadSubmit(cap) ==
    \E p \in Procs, a \in Users, r \in ReqIds :
       RoomFor(r, SubmitCode(a, r), cap) /\ load_submit(p, a, r)

LoadStatusChange(cap) ==
    \E p \in Procs, a \in Users, r \in ReqIds :
       \E s \in VALID_STATUSES \ {STATUS_DRAFT, STATUS_SUBMITTED} :
          RoomFor(r, StatusCode(a, r, TRUE, s), cap) /\ load_status_change(p, a, r, s)

CommitTransition == \E p \in Procs : commit_transition(p)

NextRace ==
    \/ CreateOne
    \/ LoadSubmit(MaxTransitions)
    \/ LoadStatusChange(MaxTransitions)
    \/ CommitTransition

SpecRace == Init /\ [][NextRace]_vars

(* C17: of two status-changing commands that read the same prior status at
   most one appends a history row, so the old_status of every transition row
   is the new_status of the transition row before it. *)
C17_OneWinnerPerPriorState ==
    \A r \in ReqIds :
       LET T == TransitionRows(history[r])
       IN  \A i \in 2..Len(T) : T[i].old_status = T[i - 1].new_status

(* ================================================================== *)
(* SLAService.track_status_change                                       *)
(* ================================================================== *)
MaxMetrics == 2
NoTime == -1
Null == "null"

(* the statuses the callers of track_status_change can pass *)
TrackedStatuses == {"open", "in_progress", STATUS_IN_REVIEW, STATUS_COMPLETED}

(* an SLAMetric row as the constructor leaves it: the nullable columns are
   NULL, is_breached takes its column default *)
SLAMetric(new_status) ==
    [status |-> new_status, status_changed_at |-> now, first_response_at |-> NoTime,
     response_sla_met |-> Null, resolution_target_at |-> NoTime,
     resolution_sla_met |-> Null, is_breached |-> FALSE, breach_type |-> Null,
     resolution_breach_at |-> NoTime]

(* the row track_status_change builds for request req under policy sla_def *)
TrackedMetric(req, sla_def, new_status) ==
    LET metric == SLAMetric(new_status)
    IN  IF new_status = "open"
        THEN [metric EXCEPT !.response_sla_met = FALSE, !.resolution_sla_met = FALSE]
        ELSE IF new_status = "in_progress"
        THEN [metric EXCEPT
                !.first_response_at = now,
                !.response_sla_met = (now <= req.created_at + sla_def.response_time_hours),
                !.resolution_target_at = req.created_at + sla_def.resolution_time_hours,
                !.resolution_sla_met = FALSE]
        ELSE IF new_status = STATUS_COMPLETED
        THEN LET met == now <= req.created_at + sla_def.resolution_time_hours
             IN  [metric EXCEPT
                    !.resolution_sla_met = met,
                    !.is_breached = ~met,
                    !.breach_type = IF met THEN Null ELSE "resolution",
                    !.resolution_breach_at = IF met THEN NoTime ELSE now]
        ELSE metric

(* SLAService.track_status_change(request_id, new_status): None for a missing
   request, else one more SLAMetric row, which it returns *)
track_status_change(r, new_status) ==
    /\ IF ~Exists(r)
       THEN /\ result' = [op |-> "track_status_change", metric |-> Null]
            /\ UNCHANGED metrics
       ELSE LET sla_def == get_sla_definition(requests[r].category, requests[r].priority)
                metric == TrackedMetric(requests[r], sla_def, new_status)
            IN  /\ metrics' = [metrics EXCEPT ![r] = Append(@, metric)]
                /\ result' = [op |-> "track_status_change", metric |-> metric]
    /\ UNCHANGED <<role, is_active, requests, history, audit, used, now, last,
                   definitions, exemptions, txn, raised, libvars>>

TrackStatusChange ==
    \E r \in ReqIds, s \in TrackedStatuses :
       Len(metrics[r]) < MaxMetrics /\ track_status_change(r, s)

NextTrack ==
    \/ CreateOne
    \/ TrackStatusChange
    \/ Pass

SpecTrack == InitSla /\ [][NextTrack]_vars

(* C21: the metric row of a move to in_review records the first response
   (first_response_at, response_sla_met against created_at + response time,
   resolution_target_at); the row of a completion records resolution_sla_met
   against created_at + resolution time and is breached, with type resolution,
   exactly when that deadline was missed. *)
C21_MetricRow ==
    \A r \in ReqIds :
       \A i \in 1..Len(metrics[r]) :
          LET m == metrics[r][i]
              at == m.status_changed_at
          IN  /\ m.status = STATUS_IN_REVIEW
                 => /\ m.first_response_at = at
                    /\ m.response_sla_met = (at <= ResponseDeadline(r))
                    /\ m.resolution_target_at = ResolutionDeadline(r)
              /\ m.status = STATUS_COMPLETED
                 => /\ m.resolution_sla_met = (at <= ResolutionDeadline(r))
                    /\ m.is_breached = (at > ResolutionDeadline(r))
                    /\ (m.is_breached <=> m.breach_type = "resolution")

(* ================================================================== *)
(* SLAService.grant_exemption, its arguments and the row it returns     *)
(* ================================================================== *)
(* duration_hours=None, the default *)
NoDuration == -1
DurationInputs == {NoDuration, 0, 1}

(* Python's truth value of duration_hours: None and 0 are false *)
Truthy(duration_hours) == duration_hours /= NoDuration /\ duration_hours /= 0

(* the SLAExemption grant_exemption builds *)
GrantedExemption(exemption_type, duration_hours) ==
    Exemption(exemption_type, now,
              IF Truthy(duration_hours) THEN now + duration_hours ELSE NoEnd)

(* a call of grant_exemption together with what the caller passed and got *)
grant_exemption_call(r, exemption_type, duration_hours) ==
    LET exemption == GrantedExemption(exemption_type, duration_hours)
    IN  /\ exemptions' = [exemptions EXCEPT ![r] = @ \cup {exemption}]
        /\ result' = [op |-> "grant_exemption", request |-> r,
                      duration_hours |-> duration_hours, exemption |-> exemption]
        /\ UNCHANGED <<role, is_active, requests, history, metrics, audit, used, now, last,
                       definitions, txn, raised, libvars>>

GrantCall ==
    \E r \in ReqIds, t \in ExemptionTypes, d \in DurationInputs :
       /\ Exists(r)
       /\ Cardinality(exemptions[r]) < MaxExemptions
       /\ grant_exemption_call(r, t, d)

NextGrant ==
    \/ CreateOne
    \/ GrantCall
    \/ Pass

SpecGrant == InitSla /\ [][NextGrant]_vars

(* C22: a grant adds one exemption that starts now and ends duration_hours
   later for every duration passed, 0 included, is indefinite only when no
   duration is passed, and keeps the exemptions the request already has. *)
C22_GrantExemption ==
    [][result'.op = "grant_exemption" /\ result' /= result
       => LET r == result'.request
              d == result'.duration_hours
              e == result'.exemption
          IN  /\ exemptions' = [exemptions EXCEPT ![r] = @ \cup {e}]
              /\ e.start_at = now
              /\ e.end_at = IF d = NoDuration THEN NoEnd ELSE now + d]_vars

(* ================================================================== *)
(* SLAService.check_all_breaches when the evaluation of a request raises *)
(* ================================================================== *)
MaxScanned == 2

(* what one pass of the loop meets for a selected request: each of the two
   checks finds a breach, finds none or raises inside its own try, and the
   loop body around them (breach_info, get_sla_definition, the deadline) raises
   or not *)
CheckOutcomes == {"breach", "clear", "raises"}

Evaluation(response, resolution, body_raises) ==
    [response |-> response, resolution |-> resolution, body_raises |-> body_raises]

Evaluations ==
    {Evaluation(a, b, c) : a \in CheckOutcomes, b \in CheckOutcomes, c \in BOOLEAN}

(* check_response_sla_breach / check_resolution_sla_breach: except Exception
   logs and returns False *)
CheckReturns(outcome) == outcome = "breach"

BreachTypes(e) ==
    {t \in {"response", "resolution"} :
        CheckReturns(IF t = "response" THEN e.response ELSE e.resolution)}

(* the loop of check_all_breaches over requests i..Len(evals), None when an
   exception leaves it *)
RECURSIVE ScanLoop(_, _, _)
ScanLoop(evals, i, breaches) ==
    IF i > Len(evals) THEN breaches
    ELSE IF evals[i].body_raises THEN Null
    ELSE LET breach_info == [request_id |-> i, breaches |-> BreachTypes(evals[i])]
         IN  ScanLoop(evals, i + 1,
                      IF breach_info.breaches /= {} THEN Append(breaches, breach_info)
                      ELSE breaches)

(* check_all_breaches: the outer except returns the empty list *)
scan_requests(evals) ==
    LET breaches == ScanLoop(evals, 1, <<>>)
    IN  IF breaches = Null THEN <<>> ELSE breaches

(* one scan per behaviour: a scan keeps nothing for the next one *)
ScanRequests ==
    \E n \in 0..MaxScanned :
       \E evals \in [1..n -> Evaluations] :
          /\ scan = NoScan
          /\ scan' = [op |-> "check_all_breaches", evaluations |-> evals,
                      returned |-> scan_requests(evals)]
          /\ Frame_scan

NextScanErrors == ScanRequests

SpecScanErrors == Init /\ [][NextScanErrors]_vars

EvaluatedCorrectly(e) ==
    e.response /= "raises" /\ e.resolution /= "raises" /\ ~e.body_raises

(* C23: whatever happens to the other requests of a scan, the report holds
   the entry of every request that was evaluated without an error and is in
   breach. *)
C23_ScanSurvivesErrors ==
    scan.op = "check_all_breaches"
    => \A i \in 1..Len(scan.evaluations) :
          LET e == scan.evaluations[i]
          IN  EvaluatedCorrectly(e) /\ BreachTypes(e) /= {}
              => \E k \in 1..Len(scan.returned) :
                    /\ scan.returned[k].request_id = i
                    /\ scan.returned[k].breaches = BreachTypes(e)

(* ================================================================== *)
(* app/tasks.py send_email_async under Celery's retry                   *)
(* ================================================================== *)
MAX_RETRIES == 3
RETRY_BASE_SECONDS == 60

RECURSIVE Pow2(_)
Pow2(k) == IF k = 0 THEN 1 ELSE 2 * Pow2(k - 1)

(* countdown=60 * (2 ** self.request.retries) *)
Countdown(retries) == RETRY_BASE_SECONDS * Pow2(retries)

(* self.retry: a new attempt is scheduled while request.retries is below
   max_retries, otherwise the exception is raised and the task fails *)
RetriesLeft(retries) == retries < MAX_RETRIES

(* send_email_async.delay(...) *)
delay(t) ==
    /\ task.queue[t].state = "NONE"
    /\ task' = [task EXCEPT !.queue[t].state = "PENDING"]
    /\ Frame_task

(* a worker runs send_email_async; mail.send succeeds or raises *)
send_email_async(t, sent) ==
    LET cur == task.queue[t]
    IN  /\ cur.state \in {"PENDING", "RETRY"}
        /\ task' =
             IF sent THEN [task EXCEPT !.queue[t].state = "SUCCESS"]
             ELSE IF RetriesLeft(cur.retries)
             THEN [task EXCEPT !.queue[t] =
                      [state |-> "RETRY", retries |-> cur.retries + 1,
                       countdowns |-> Append(cur.countdowns, Countdown(cur.retries))]]
             ELSE [task EXCEPT !.queue[t].state = "FAILURE"]
        /\ Frame_task

Delay == \E t \in TaskIds : delay(t)

SendEmailAsync == \E t \in TaskIds, sent \in BOOLEAN : send_email_async(t, sent)

NextTasks ==
    \/ Delay
    \/ SendEmailAsync

SpecTasks == Init /\ [][NextTasks]_vars

(* a failing send is retried at most 3 times, the retry after the k-th
   failure delayed by 60 * 2^k seconds, and a task fails only once its 3
   retries are used up *)
BoundedBackoff ==
    \A t \in TaskIds :
       LET cur == task.queue[t]
       IN  /\ cur.retries <= 3
           /\ Len(cur.countdowns) = cur.retries
           /\ \A k \in 1..Len(cur.countdowns) : cur.countdowns[k] = 60 * Pow2(k - 1)
           /\ cur.state = "FAILURE" => cur.countdowns = <<60, 120, 240>>
           /\ cur.state = "RETRY" => cur.retries >= 1

(* a task failed after its third retry *)
C24_Witness ==
    \E t \in TaskIds :
       /\ task.queue[t].state = "FAILURE"
       /\ task.queue[t].retries = 3
       /\ task.queue[t].countdowns = <<60, 120, 240>>

(* C24: a failing send is retried at most 3 times with delays of 60, 120 and
   240 seconds, then stops in failure, and a task that has failed for good is
   in the dead-letter queue. *)
C24_DeadLetter ==
    /\ BoundedBackoff
    /\ \A t \in TaskIds : task.queue[t].state = "FAILURE" => t \in task.dlq

(* ================================================================== *)
(* app/security/rate_limiter.py RateLimiter, one key, the login limits  *)
(* ================================================================== *)
MaxChecks == 8

(* the clock counts half seconds, so that int(total_seconds()) truncates *)
TicksPerSecond == 2
Minutes(m) == m * 60 * TicksPerSecond

(* CONFIG['login'] *)
MAX_ATTEMPTS == 5
WINDOW_MINUTES == 15
LOCKOUT_MINUTES == 30

(* the time between two calls: datetime.utcnow() has moved on by half a
   second, by just over the window, or by the lockout less half a second *)
Elapsed == {1, Minutes(WINDOW_MINUTES) + 1, Minutes(LOCKOUT_MINUTES) - 1}

(* a limiter that forgets to look at blocked_until *)
NeverBlocked(entry, t) == FALSE

(* entry['blocked_until'] and now < entry['blocked_until'] *)
Blocked(entry, t) == entry.blocked_until /= Never /\ t < entry.blocked_until

(* the window test: last_attempt is set and lies more than window_minutes
   back; total_seconds() is not truncated here *)
WindowExpired(entry, t) ==
    entry.last_attempt /= Never
    /\ t - entry.last_attempt > Minutes(WINDOW_MINUTES)

Answer(allowed, remaining, reset_seconds) ==
    [allowed |-> allowed, remaining |-> remaining, reset_seconds |-> reset_seconds]

(* RateLimiter.check_rate_limit(key, 'login') at clock reading t: the entry it
   leaves and the tuple it returns *)
check_rate_limit(entry, t) ==
    IF Blocked(entry, t)
    THEN [entry |-> entry,
          returned |-> Answer(FALSE, 0, (entry.blocked_until - t) \div TicksPerSecond)]
    ELSE LET e == IF WindowExpired(entry, t) THEN NoEntry ELSE entry
         IN  IF e.attempts >= MAX_ATTEMPTS
             THEN [entry |-> [e EXCEPT !.blocked_until = t + Minutes(LOCKOUT_MINUTES)],
                   returned |-> Answer(FALSE, 0, LOCKOUT_MINUTES * 60)]
             ELSE [entry |-> [e EXCEPT !.attempts = @ + 1, !.last_attempt = t],
                   returned |-> Answer(TRUE, MAX_ATTEMPTS - (e.attempts + 1),
                                       WINDOW_MINUTES * 60)]

(* one more call, some time after the one before *)
CheckRateLimit ==
    \E d \in Elapsed :
       LET t == limiter.clock + d
           out == check_rate_limit(limiter.entry, t)
       IN  /\ Len(limiter.calls) < MaxChecks
           /\ limiter' = [entry |-> out.entry, clock |-> t,
                          calls |-> Append(limiter.calls, [at |-> t] @@ out.returned)]
           /\ Frame_limiter

NextLimiter == CheckRateLimit

SpecLimiter == Init /\ [][NextLimiter]_vars

(* the calls so far, each within the window of the one before it *)
InWindow(calls, n) ==
    \A i \in 2..n : calls[i].at - calls[i - 1].at <= Minutes(WINDOW_MINUTES)

(* the first calls stayed within the window up to and including the denying
   call, which is call 6 *)
DenyingCall == MAX_ATTEMPTS + 1

LockedOut(calls) == Len(calls) >= DenyingCall /\ InWindow(calls, DenyingCall)

(* the limiter from the first call on: 5 allowed, then denied; from the denying
   call until the lockout is over every call is denied with remaining 0 and a
   reset time of at least min_reset seconds; the first call after the lockout
   is allowed *)
LimiterContract(min_reset) ==
    LET calls == limiter.calls
        n == Len(calls)
    IN  /\ \A i \in 1..n :
              i <= DenyingCall /\ InWindow(calls, i)
              => (calls[i].allowed <=> i <= MAX_ATTEMPTS)
        /\ LockedOut(calls)
           => LET free_at == calls[DenyingCall].at + Minutes(LOCKOUT_MINUTES)
              IN  \A i \in DenyingCall..n :
                     /\ calls[i].at < free_at
                        => /\ ~calls[i].allowed
                           /\ calls[i].remaining = 0
                           /\ calls[i].reset_seconds >= min_reset
                     /\ calls[i].at >= free_at /\ calls[i - 1].at < free_at
                        => calls[i].allowed

(* C25, as stated: a denied call reports a reset time above 0. *)
C25_RateLimit == LimiterContract(1)

(* C25, amended: a denied call reports a reset time of 0 or more seconds. *)
C25_RateLimitResetTruncated == LimiterContract(0)

(* the limiter denied the sixth call, denied another call during the lockout
   and allowed the first call after it *)
C25_Witness ==
    /\ LockedOut(limiter.calls)
    /\ Len(limiter.calls) = 8
    /\ ~limiter.calls[7].allowed
    /\ limiter.calls[7].reset_seconds = 0
    /\ limiter.calls[8].allowed

(* ================================================================== *)
(* backend identity/domain/user.py: the User aggregate                  *)
(* ================================================================== *)
MaxFailed == 7
MaxEvents == 3
LOCK_AFTER == 5

(* an aggregate that locks one failure late *)
LockDueOneLate(attempts) == attempts >= LOCK_AFTER + 1

(* if self.failed_login_attempts >= 5 *)
LockDue(attempts) == attempts >= LOCK_AFTER

(* User.lock applied to u: status LOCKED and a UserLockedEvent *)
Locked(u) ==
    [u EXCEPT !.status = "locked",
              !.events = Append(@, IF u.failed_login_attempts >= LOCK_AFTER
                                   THEN "Failed login attempts" ELSE "Admin action")]

record_failed_login ==
    LET u == [account EXCEPT !.failed_login_attempts = @ + 1]
    IN  /\ account.failed_login_attempts < MaxFailed
        /\ LockDue(u.failed_login_attempts) => Len(account.events) < MaxEvents
        /\ account' = [(IF LockDue(u.failed_login_attempts) THEN Locked(u) ELSE u)
                          EXCEPT !.op = "record_failed_login"]
        /\ Frame_account

record_successful_login ==
    /\ account' = [account EXCEPT !.failed_login_attempts = 0, !.last_login = TRUE,
                                  !.op = "record_successful_login"]
    /\ Frame_account

lock ==
    /\ Len(account.events) < MaxEvents
    /\ account' = [Locked(account) EXCEPT !.op = "lock"]
    /\ Frame_account

unlock ==
    /\ account' = [account EXCEPT !.status = "active", !.failed_login_attempts = 0,
                                  !.op = "unlock"]
    /\ Frame_account

soft_delete ==
    /\ account' = [account EXCEPT !.status = "deleted", !.deleted = TRUE,
                                  !.op = "soft_delete"]
    /\ Frame_account

NextAccount ==
    \/ record_failed_login
    \/ record_successful_login
    \/ lock
    \/ unlock
    \/ soft_delete

SpecAccount == Init /\ [][NextAccount]_vars

(* C26: the failed login that brings the count to 5 or more leaves the
   account LOCKED; a successful login and an unlock reset the count to 0 and
   an unlock makes the account ACTIVE; and an account with 5 or more failed
   logins is never ACTIVE. *)
C26_Lockout ==
    [][/\ account'.op = "record_failed_login"
          => /\ account'.failed_login_attempts = account.failed_login_attempts + 1
             /\ account'.failed_login_attempts >= 5 => account'.status = "locked"
             /\ account'.failed_login_attempts < 5 => account'.status = account.status
       /\ account'.op \in {"record_successful_login", "unlock"}
          => account'.failed_login_attempts = 0
       /\ account'.op = "unlock" => account'.status = "active"
       /\ account'.failed_login_attempts >= 5 => account'.status /= "active"]_vars

(* the fifth failure in a row has just locked an account that was active *)
C26_Witness ==
    /\ account.op = "record_failed_login"
    /\ account.failed_login_attempts = 5
    /\ account.status = "locked"
    /\ account.events = <<"Failed login attempts">>

(* ================================================================== *)
(* backend shared/security/jwt_handler.py JWTHandler                    *)
(* ================================================================== *)
MaxTokens == 2
MaxAdvances == 2

(* the clock counts minutes *)
ACCESS_TOKEN_EXPIRE_MINUTES == 15
REFRESH_TOKEN_EXPIRE_DAYS == 7
Days(d) == d * 24 * 60

(* an encoded token: its jti, type and expiry, and whether its signature is
   the handler's own *)
Token(jti, token_type, exp, signed) ==
    [jti |-> jti, token_type |-> token_type, exp |-> exp, signed |-> signed]

(* jtis are uuid4 values: a new one differs from all before *)
NewJti == Cardinality(jwt.issued) + 1
Jtis == 1..MaxTokens

(* what callers can present: the issued tokens and copies of them whose
   signature does not verify *)
Presented == jwt.issued \cup {[t EXCEPT !.signed = FALSE] : t \in jwt.issued}

(* a handler that never consults revoked_tokens *)
NeverRevoked(jti) == FALSE

(* payload.get("jti") in self.revoked_tokens *)
Revoked(jti) == jti \in jwt.revoked_tokens

(* jwt.decode: the signature, then exp against the clock *)
Decodes(t) == t.signed /\ jwt.clock < t.exp

(* verify_token: the payload, or UnauthorizedError *)
Verified(t, token_type) ==
    Decodes(t) /\ t.token_type = token_type /\ ~Revoked(t.jti)

Issue(op, token_type, ttl, presented, returned) ==
    /\ Cardinality(jwt.issued) < MaxTokens
    /\ jwt' = [jwt EXCEPT !.op = op,
                          !.issued = @ \cup {Token(NewJti, token_type, jwt.clock + ttl, TRUE)},
                          !.token = presented, !.token_type = "none",
                          !.returned = returned]
    /\ Frame_jwt

create_access_token ==
    Issue("create_access_token", "access", ACCESS_TOKEN_EXPIRE_MINUTES, 0, "token")

create_refresh_token ==
    Issue("create_refresh_token", "refresh", Days(REFRESH_TOKEN_EXPIRE_DAYS), 0, "token")

verify_token(t, token_type) ==
    /\ jwt' = [jwt EXCEPT !.op = "verify_token", !.token = t, !.token_type = token_type,
                          !.returned = IF Verified(t, token_type)
                                       THEN "payload" ELSE "UnauthorizedError"]
    /\ Frame_jwt

revoke_token(jti) ==
    /\ jwt' = [jwt EXCEPT !.op = "revoke_token", !.revoked_tokens = @ \cup {jti},
                          !.token = 0, !.token_type = "none", !.returned = "none"]
    /\ Frame_jwt

refresh_access_token(t) ==
    IF Verified(t, "refresh")
    THEN Issue("refresh_access_token", "access", ACCESS_TOKEN_EXPIRE_MINUTES, t, "token")
    ELSE /\ jwt' = [jwt EXCEPT !.op = "refresh_access_token", !.token = t,
                               !.token_type = "none", !.returned = "UnauthorizedError"]
         /\ Frame_jwt

VerifyToken == \E t \in Presented, ty \in {"access", "refresh"} : verify_token(t, ty)

RevokeToken == \E jti \in Jtis : revoke_token(jti)

RefreshAccessToken == \E t \in Presented : refresh_access_token(t)

(* time passes: a quarter of an hour, or a week *)
Later ==
    \E d \in {ACCESS_TOKEN_EXPIRE_MINUTES, Days(REFRESH_TOKEN_EXPIRE_DAYS)} :
       /\ jwt.advances < MaxAdvances
       /\ jwt' = [jwt EXCEPT !.clock = @ + d, !.advances = @ + 1]
       /\ Frame_jwt

NextJwt ==
    \/ create_access_token
    \/ create_refresh_token
    \/ VerifyToken
    \/ RevokeToken
    \/ RefreshAccessToken
    \/ Later

SpecJwt == Init /\ [][NextJwt]_vars

(* C27: no step removes a jti from the revoked set; verifying or refreshing
   with a token whose jti is revoked raises UnauthorizedError and a refresh
   with it issues nothing; verifying a signed, unexpired token that was never
   revoked, with its own type expected, returns the payload. *)
C27_RevocationPermanent ==
    [][/\ jwt.revoked_tokens \subseteq jwt'.revoked_tokens
       /\ jwt'.op \in {"verify_token", "refresh_access_token"}
             /\ jwt'.token.jti \in jwt.revoked_tokens
          => /\ jwt'.returned = "UnauthorizedError"
             /\ jwt'.issued = jwt.issued
       /\ jwt'.op = "verify_token"
             /\ jwt'.token.jti \notin jwt.revoked_tokens
             /\ jwt'.token.signed
             /\ jwt.clock < jwt'.token.exp
             /\ jwt'.token_type = jwt'.token.token_type
          => jwt'.returned = "payload"]_vars

(* a token verified, was revoked, and a later verification of it, after time
   has passed but before its expiry, was refused *)
C27_Witness ==
    /\ jwt.op = "verify_token"
    /\ jwt.returned = "UnauthorizedError"
    /\ jwt.token.signed
    /\ jwt.token.token_type = "refresh"
    /\ jwt.token.jti \in jwt.revoked_tokens
    /\ jwt.clock > 0
    /\ jwt.clock < jwt.token.exp

(* ================================================================== *)
(* DELETE /api/service-requests/<id> one of whose steps raises          *)
(* ================================================================== *)
(* log_action commits the audit row first; the history rows and the request
   are deleted and committed after it; any exception answers 500 *)
delete_service_request_raising(a, r, raise) ==
    LET code == DeleteCode(a, r)
        logged == code = 200 /\ raise /= "log_action"
        deleted == code = 200 /\ raise = "none"
    IN  /\ audit' = IF logged THEN log_action("service_request_deleted", r) ELSE audit
        /\ IF deleted
           THEN /\ history' = [history EXCEPT ![r] = <<>>]
                /\ requests' = [requests EXCEPT ![r] = NoRequest]
           ELSE UNCHANGED <<requests, history>>
        /\ last' = Reply("delete", IF code = 200 /\ raise /= "none" THEN 500 ELSE code)
        /\ raised' = raise
        /\ UNCHANGED <<role, is_active, metrics, used, now>>
        /\ UNCHANGED <<definitions, exemptions, result, txn, libvars>>

DeleteRaising ==
    \E a \in Users, r \in ReqIds :
       \E raise \in RaisesAfter(DeleteCode(a, r), {"none", "log_action", "commit"}) :
          delete_service_request_raising(a, r, raise)

NextDelete ==
    \/ CreateOne
    \/ EditOne
    \/ Submit(MaxHistory)
    \/ ChangeStatus(MaxHistory)
    \/ Assign(MaxHistory)
    \/ DeleteRaising

SpecDelete == Init /\ [][NextDelete]_vars

(* C28: only an admin's delete succeeds; a successful delete leaves neither
   the request nor a history row of it; a request or a history row disappears
   in no other step; and the deletion's audit entry exists exactly for the
   requests that have been deleted. *)
C28_HardDelete ==
    [][/\ \A a \in Users, r \in ReqIds : DeleteCode(a, r) = 200 => role[a] = "admin"
       /\ \A r \in ReqIds :
             /\ (Exists(r) /\ ~Exists(r)') \/ ~IsPrefix(history[r], history'[r])
                => last' = Reply("delete", 200)
             /\ last' = Reply("delete", 200) /\ Exists(r)
                => ~Exists(r)' /\ history'[r] = <<>>
             /\ <<"service_request_deleted", r>> \in audit'
                <=> (r \in used' /\ ~Exists(r)')]_vars

(* ------------------------------------------------------------------ *)
(* Password-reset tokens (app/models.py, User)                         *)
(* ------------------------------------------------------------------ *)

MaxResetTokens == 1
MaxResetAdvances == 2
MaxResetAudits == 3

PASSWORD_RESET_TOKEN_EXPIRY == 3600

NoExpiresSec == -1
ResetUsers == {1, 2}
ExpiresSecInputs == {NoExpiresSec, 0, 1}

(* the payload {"user_id", "iat"[, "exp"]} and whether the serializer's
   signature over it is the one the application's key produces *)
ResetToken(user_id, iat, exp, signed) ==
    [user_id |-> user_id, iat |-> iat, exp |-> exp, signed |-> signed]

(* the configured expiry is usable: an int, and positive *)
ValidConfig(cfg) == cfg > 0

(* what a client can present: a token it was sent, one of those with the
   payload altered (a later exp, another user) under the old signature, or
   a string that is no token at all *)
Tampered ==
    UNION {{ResetToken(u, t.iat, e, FALSE) :
               u \in ResetUsers, e \in {NoExp, t.exp + PASSWORD_RESET_TOKEN_EXPIRY}} :
           t \in reset.issued}

ResetPresented == reset.issued \cup Tampered \cup {NoToken}

ExpiredAtExpiry(data, now_ts) ==
    IF data.exp # NoExp
    THEN now_ts >= data.exp
    ELSE (now_ts - data.iat) >= PASSWORD_RESET_TOKEN_EXPIRY

(* the two expiry tests of verify_reset_password_token *)
Expired(data, now_ts) ==
    IF data.exp # NoExp
    THEN now_ts > data.exp
    ELSE (now_ts - data.iat) > PASSWORD_RESET_TOKEN_EXPIRY

(* reason recorded for the attempt *)
Reason(token, now_ts) ==
    IF ~token.signed THEN "invalid_token"
    ELSE IF token.exp = NoExp /\ ~ValidConfig(PASSWORD_RESET_TOKEN_EXPIRY)
         THEN "invalid_config"
    ELSE IF Expired(token, now_ts) THEN "expired"
    ELSE "valid"

(* User.query.get(user_id): user rows are never removed *)
QueryGet(user_id) == IF user_id \in ResetUsers THEN user_id ELSE NoUser

get_reset_password_token(u, expires_sec) ==
    /\ Cardinality(reset.issued) < MaxResetTokens
    /\ IF expires_sec # NoExpiresSec
       THEN IF expires_sec <= 0
            THEN reset' = [reset EXCEPT !.op = "get_reset_password_token",
                                        !.token = NoToken,
                                        !.returned = NoUser]
            ELSE reset' = [reset EXCEPT !.op = "get_reset_password_token",
                                        !.issued = @ \cup {ResetToken(u, reset.clock,
                                                             reset.clock + expires_sec, TRUE)},
                                        !.token = NoToken,
                                        !.returned = NoUser]
       ELSE IF ~ValidConfig(PASSWORD_RESET_TOKEN_EXPIRY)
            THEN reset' = [reset EXCEPT !.op = "get_reset_password_token",
                                        !.token = NoToken,
                                        !.returned = NoUser]
            ELSE reset' = [reset EXCEPT !.op = "get_reset_password_token",
                                        !.issued = @ \cup {ResetToken(u, reset.clock, NoExp, TRUE)},
                                        !.token = NoToken,
                                        !.returned = NoUser]
    /\ Frame_reset

verify_reset_password_token(token) ==
    LET reason == Reason(token, reset.clock)
        succeeded == reason = "valid"
        user_id == IF token.signed THEN token.user_id ELSE NoUser
    IN  /\ reset.audits < MaxResetAudits
        /\ reset' = [reset EXCEPT !.op = "verify_reset_password_token",
                                  !.token = token,
                                  !.audits = @ + 1,
                                  !.reason = reason,
                                  !.accepted = IF succeeded THEN @ \cup {token} ELSE @,
                                  !.again = IF succeeded /\ token \in reset.accepted
                                            THEN @ \cup {token} ELSE @,
                                  !.returned = IF succeeded THEN QueryGet(user_id)
                                               ELSE NoUser]
        /\ Frame_reset

GetResetPasswordToken ==
    \E u \in ResetUsers, e \in ExpiresSecInputs : get_reset_password_token(u, e)

VerifyResetPasswordToken ==
    \E token \in ResetPresented : verify_reset_password_token(token)

(* time passes: a second, or the configured expiry *)
ResetLater ==
    \E d \in {1, PASSWORD_RESET_TOKEN_EXPIRY} :
       /\ reset.advances < MaxResetAdvances
       /\ reset' = [reset EXCEPT !.op = "later", !.clock = @ + d,
                                 !.advances = @ + 1]
       /\ Frame_reset

NextReset ==
    \/ GetResetPasswordToken
    \/ VerifyResetPasswordToken
    \/ ResetLater

SpecReset == Init /\ [][NextReset]_vars

(* the token is one the application signed and its time has not run out *)
Acceptable(token, at) ==
    /\ token.signed
    /\ IF token.exp # NoExp
       THEN at <= token.exp
       ELSE at - token.iat <= PASSWORD_RESET_TOKEN_EXPIRY

(* C29: verify_reset_password_token returns the user the token was issued
   for exactly when the token carries the application's signature and has
   not expired (now <= exp when it embeds one, otherwise now - iat <= the
   configured expiry) and returns None for every other token; a verification
   removes no issued token, so a token that was accepted is accepted again
   for as long as it has not expired. *)
C29_ResetTokenVerification ==
    [][/\ reset'.op = "verify_reset_password_token"
          => /\ reset'.issued = reset.issued
             /\ reset'.returned =
                   IF Acceptable(reset'.token, reset.clock)
                   THEN reset'.token.user_id
                   ELSE NoUser
             /\ Acceptable(reset'.token, reset.clock)
                   => reset'.token \in reset.issued
       /\ reset'.op = "verify_reset_password_token"
             /\ reset'.token \in reset.accepted
             /\ Acceptable(reset'.token, reset.clock)
          => reset'.returned = reset'.token.user_id]_vars

(* a token without an embedded expiry was accepted twice, the second time
   in the last second of its life, and refused one second later *)
C29_Witness ==
    /\ reset.op = "verify_reset_password_token"
    /\ reset.token \in reset.again
    /\ reset.token.exp = NoExp
    /\ reset.clock = reset.token.iat + PASSWORD_RESET_TOKEN_EXPIRY + 1
    /\ reset.reason = "expired"
    /\ reset.returned = NoUser

(* ------------------------------------------------------------------ *)
(* Password history (auth/routes.py, dashboard/routes.py)              *)
(* ------------------------------------------------------------------ *)

MaxSets == 7

PASSWORD_HISTORY_COUNT == 5

(* passwords a user may choose, enough of them to outrun the history; 0 is
   a password the user never had *)
Plaintexts == 1..(PASSWORD_HISTORY_COUNT + 2)
WrongPassword == 0

(* the first n elements of a sequence: .limit(n) and [:n] *)
Limit(seq, n) == SubSeq(seq, 1, IF Len(seq) < n THEN Len(seq) ELSE n)

(* passlib.hash.bcrypt.hash and werkzeug's generate_password_hash: two
   hash formats, each holding the password it was made from *)
bcrypt_hash(password) == [scheme |-> "bcrypt", password |-> password]
generate_password_hash(password) == [scheme |-> "werkzeug", password |-> password]

(* passlib.hash.bcrypt.verify: a hash that is not a bcrypt hash raises
   ValueError *)
bcrypt_verify(password, hash) ==
    IF hash.scheme # "bcrypt" THEN "ValueError"
    ELSE IF hash.password = password THEN "match" ELSE "mismatch"

(* werkzeug's check_password_hash: a hash of another format never matches;
   depending on the release it returns False or raises ValueError *)
check_password_hash(hash, password) ==
    IF hash.scheme # "werkzeug" THEN {"mismatch", "ValueError"}
    ELSE IF hash.password = password THEN {"match"} ELSE {"mismatch"}

(* the password now stored, in clear *)
CurrentPassword == passwords.password_hash.password

(* ghost: the passwords the user had before the current one, newest first,
   whichever operation replaced them *)
Remember(old) == Limit(<<old>> \o passwords.previous, PASSWORD_HISTORY_COUNT)

(* the first hash of recent that new_password verifies against, or that
   cannot be verified at all, decides the loop *)
RECURSIVE Reused(_, _, _)
Reused(new_password, recent, i) ==
    IF i > Len(recent) THEN "mismatch"
    ELSE IF bcrypt_verify(new_password, recent[i]) # "mismatch"
         THEN bcrypt_verify(new_password, recent[i])
         ELSE Reused(new_password, recent, i + 1)

Refused(current_password, new_password, returned) ==
    passwords' = [passwords EXCEPT !.op = "change_password",
                                   !.current_password = current_password,
                                   !.new_password = new_password,
                                   !.returned = returned]

change_password(current_password, new_password) ==
    LET N == PASSWORD_HISTORY_COUNT
        known == bcrypt_verify(current_password, passwords.password_hash)
        recent == <<passwords.password_hash>> \o Limit(passwords.history, N)
        reused == Reused(new_password, recent, 1)
        all_hist == <<passwords.password_hash>> \o passwords.history
    IN  /\ IF known = "ValueError"
           THEN Refused(current_password, new_password, "ValueError")
           ELSE IF known = "mismatch"
           THEN Refused(current_password, new_password, "bad_current_password")
           ELSE IF reused = "ValueError"
           THEN Refused(current_password, new_password, "ValueError")
           ELSE IF reused = "match"
           THEN Refused(current_password, new_password, "password_reuse")
           ELSE /\ passwords.sets < MaxSets
                /\ passwords' = [passwords EXCEPT
                      !.op = "change_password",
                      !.current_password = current_password,
                      !.new_password = new_password,
                      !.password_hash = bcrypt_hash(new_password),
                      !.history = Limit(all_hist, N),
                      !.previous = Remember(CurrentPassword),
                      !.sets = @ + 1,
                      !.returned = "password_change"]
        /\ Frame_passwords

(* User.set_password *)
set_password(op, current_password, new_password) ==
    /\ passwords.sets < MaxSets
    /\ passwords' = [passwords EXCEPT
          !.op = op,
          !.current_password = current_password,
          !.new_password = new_password,
          !.password_hash = generate_password_hash(new_password),
          !.previous = Remember(CurrentPassword),
          !.sets = @ + 1,
          !.returned = "password_set"]

(* the holder of a valid reset token sets a new password *)
reset_password(new_password) ==
    /\ set_password("reset_password", WrongPassword, new_password)
    /\ Frame_passwords

(* the password form of the profile page *)
profile(current_password, new_password) ==
    /\ \E known \in check_password_hash(passwords.password_hash, current_password) :
          IF known = "match"
          THEN set_password("profile", current_password, new_password)
          ELSE passwords' = [passwords EXCEPT
                  !.op = "profile",
                  !.current_password = current_password,
                  !.new_password = new_password,
                  !.returned = IF known = "ValueError" THEN "ValueError"
                               ELSE "bad_current_password"]
    /\ Frame_passwords

(* the current password as the user types it: right, or wrong *)
Typed == {CurrentPassword, WrongPassword}

(* the elements of a sequence *)
Elements(seq) == {seq[i] : i \in 1..Len(seq)}

(* the new password the user chooses: one the account had before, or one
   it never had (passwords being interchangeable, the lowest such) *)
Had ==
    {CurrentPassword} \cup Elements(passwords.previous)
       \cup {passwords.history[i].password : i \in 1..Len(passwords.history)}

Chosen ==
    Had \cup {p \in Plaintexts \ Had : \A q \in Plaintexts \ Had : p <= q}

ChangePassword ==
    \E current_password \in Typed, new_password \in Chosen :
       change_password(current_password, new_password)

ResetPassword == \E new_password \in Chosen : reset_password(new_password)

Profile ==
    \E current_password \in Typed, new_password \in Chosen :
       profile(current_password, new_password)

NextPasswords ==
    \/ ChangePassword
    \/ ResetPassword
    \/ Profile

SpecPasswords == Init /\ [][NextPasswords]_vars

(* the user never has more than N PasswordHistory rows *)
HistoryBounded == Len(passwords.history) <= PASSWORD_HISTORY_COUNT

(* a request to change the password to the current one or to one of the
   last N previous ones, however it ends, leaves the stored password as it
   was *)
ReuseNeverStored ==
    [][passwords'.op = "change_password"
          /\ passwords'.new_password
                \in {CurrentPassword} \cup Elements(passwords.previous)
       => passwords'.password_hash = passwords.password_hash]_vars

(* C30: change_password, given the right current password and a new
   password equal to the current one or to one of the user's last
   PASSWORD_HISTORY_COUNT previous passwords (set by change_password,
   reset_password or the profile form), answers with the password_reuse
   rejection and leaves the stored password unchanged; and the user never
   has more than PASSWORD_HISTORY_COUNT history rows. *)
C30_PasswordHistory ==
    [][/\ passwords'.op = "change_password"
             /\ passwords'.current_password = CurrentPassword
             /\ passwords'.new_password
                   \in {CurrentPassword} \cup Elements(passwords.previous)
          => /\ passwords'.returned = "password_reuse"
             /\ passwords'.password_hash = passwords.password_hash
       /\ Len(passwords'.history) <= PASSWORD_HISTORY_COUNT]_vars

(* a password set by change_password was replaced through a reset link,
   and the request to change back to it, with the right current password,
   ended in ValueError *)
C30_Witness ==
    /\ passwords.op = "change_password"
    /\ passwords.returned = "ValueError"
    /\ passwords.current_password = CurrentPassword
    /\ passwords.previous # <<>>
    /\ passwords.new_password = passwords.previous[1]
    /\ passwords.history # <<>>
    /\ passwords.new_password \notin
          {passwords.history[i].password : i \in 1..Len(passwords.history)}

(* six changes of password filled the history and pushed the oldest row
   out of it *)
HistoryTrimmed ==
    /\ passwords.op = "change_password"
    /\ passwords.returned = "password_change"
    /\ passwords.sets = PASSWORD_HISTORY_COUNT + 1
    /\ Len(passwords.history) = PASSWORD_HISTORY_COUNT
    /\ passwords.password_hash.scheme = "bcrypt"
====
